---- MODULE Spec2Model ----
(***************************************************************************)
(* Model of the phylax backup orchestration engine: the backup pipeline    *)
(* (usecase.Backup), its upload fan-out, and the retention cleaner         *)
(* (usecase.Cleanup / usecase.CleanupUseCase).                             *)
(***************************************************************************)
EXTENDS Integers, Sequences, FiniteSets, TLC

(***************************************************************************)
(* Bounds of the model.                                                    *)
(***************************************************************************)
NumTargets == 2
MaxFiles == 2

Targets == 1..NumTargets

(***************************************************************************)
(* Calendar arithmetic of the Go time package, as used by time.Parse,      *)
(* Time.Format and Time.AddDate.  Instants are seconds since the Unix      *)
(* epoch.                                                                  *)
(***************************************************************************)
SecondsPerDay == 86400

IsLeap(y) == (y % 4 = 0) /\ ((y % 100 # 0) \/ (y % 400 = 0))

DaysIn(m, y) ==
    IF m = 2 THEN (IF IsLeap(y) THEN 29 ELSE 28)
    ELSE IF m \in {4, 6, 9, 11} THEN 30 ELSE 31

\* Days since 1970-01-01 of the civil date y-m-d (proleptic Gregorian).
DaysFromCivil(y, m, d) ==
    LET yy  == IF m <= 2 THEN y - 1 ELSE y
        era == yy \div 400
        yoe == yy - era * 400
        mp  == IF m > 2 THEN m - 3 ELSE m + 9
        doy == (153 * mp + 2) \div 5 + d - 1
        doe == yoe * 365 + yoe \div 4 - yoe \div 100 + doy
    IN  era * 146097 + doe - 719468

\* The civil date of a day number.
CivilFromDays(z0) ==
    LET z   == z0 + 719468
        era == z \div 146097
        doe == z - era * 146097
        yoe == (doe - doe \div 1460 + doe \div 36524 - doe \div 146096) \div 365
        doy == doe - (365 * yoe + yoe \div 4 - yoe \div 100)
        mp  == (5 * doy + 2) \div 153
        d   == doy - (153 * mp + 2) \div 5 + 1
        m   == IF mp < 10 THEN mp + 3 ELSE mp - 9
        y   == yoe + era * 400 + (IF m <= 2 THEN 1 ELSE 0)
    IN  [y |-> y, m |-> m, d |-> d]

\* time.Date(y, m, d, hh, mi, ss, 0, time.UTC) as an instant.
DateUTC(y, m, d, hh, mi, ss) ==
    DaysFromCivil(y, m, d) * SecondsPerDay + hh * 3600 + mi * 60 + ss

(***************************************************************************)
(* Strings are sequences of one-character strings.                         *)
(***************************************************************************)
DigitChars == <<"0", "1", "2", "3", "4", "5", "6", "7", "8", "9">>

IsDigit(c) == \E i \in 1..10 : DigitChars[i] = c

DigitVal(c) == (CHOOSE i \in 1..10 : DigitChars[i] = c) - 1

Pow10(k) == CASE k = 0 -> 1 [] k = 1 -> 10 [] k = 2 -> 100 [] k = 3 -> 1000

\* The number a field of the layout denotes: the fields are two or four
\* digits wide.
Atoi(s) ==
    LET d(i) == DigitVal(s[i])
    IN  CASE Len(s) = 2 -> d(1) * 10 + d(2)
          [] Len(s) = 4 -> d(1) * 1000 + d(2) * 100 + d(3) * 10 + d(4)

\* A field of the layout for the number n: w digits, zero padded.
ZeroPad(n, w) ==
    [i \in 1..w |-> DigitChars[((n \div Pow10(w - i)) % 10) + 1]]

AllDigits(s) == \A i \in 1..Len(s) : IsDigit(s[i])

HasSuffix(s, suf) ==
    /\ Len(s) >= Len(suf)
    /\ SubSeq(s, Len(s) - Len(suf) + 1, Len(s)) = suf

\* strings.TrimSuffix
TrimSuffix(s, suf) ==
    IF HasSuffix(s, suf) THEN SubSeq(s, 1, Len(s) - Len(suf)) ELSE s

\* time.Parse("20060102_150405", s): the whole value must be
\* YYYYMMDD_HHMMSS with every field in range; the result is in UTC.
TimeParse(s) ==
    IF /\ Len(s) = 15
       /\ AllDigits(SubSeq(s, 1, 8))
       /\ s[9] = "_"
       /\ AllDigits(SubSeq(s, 10, 15))
    THEN LET y  == Atoi(SubSeq(s, 1, 4))
             m  == Atoi(SubSeq(s, 5, 6))
             d  == Atoi(SubSeq(s, 7, 8))
             hh == Atoi(SubSeq(s, 10, 11))
             mi == Atoi(SubSeq(s, 12, 13))
             ss == Atoi(SubSeq(s, 14, 15))
         IN  IF /\ m \in 1..12
                /\ hh \in 0..23
                /\ mi \in 0..59
                /\ ss \in 0..59
                /\ d >= 1
                /\ d <= DaysIn(m, y)
             THEN [ok |-> TRUE, t |-> DateUTC(y, m, d, hh, mi, ss)]
             ELSE [ok |-> FALSE, t |-> 0]
    ELSE [ok |-> FALSE, t |-> 0]

\* Time.Format("20060102_150405") of the instant t in a zone that is
\* offset seconds east of UTC.
TimeFormat(t, offset) ==
    LET loc  == t + offset
        days == loc \div SecondsPerDay
        sod  == loc % SecondsPerDay
        c    == CivilFromDays(days)
    IN  ZeroPad(c.y, 4) \o ZeroPad(c.m, 2) \o ZeroPad(c.d, 2) \o <<"_">>
        \o ZeroPad(sod \div 3600, 2) \o ZeroPad((sod % 3600) \div 60, 2)
        \o ZeroPad(sod % 60, 2)

\* Time.AddDate(0, 0, -days) in a zone with a fixed offset.
AddDays(t, days) == t + days * SecondsPerDay

(***************************************************************************)
(* The timestamp pattern (\d{8})_(\d{6}) of Cleanup's extractTimestamp.    *)
(***************************************************************************)
PatternAt(s, i) ==
    /\ i + 14 <= Len(s)
    /\ AllDigits(SubSeq(s, i, i + 7))
    /\ s[i + 8] = "_"
    /\ AllDigits(SubSeq(s, i + 9, i + 14))

\* regexp FindStringSubmatch: the leftmost match, or none.
extractTimestamp(name) ==
    IF \E i \in 1..Len(name) : PatternAt(name, i)
    THEN LET i == CHOOSE j \in 1..Len(name) :
                      /\ PatternAt(name, j)
                      /\ \A k \in 1..(j - 1) : ~PatternAt(name, k)
         IN  TimeParse(SubSeq(name, i, i + 14))
    ELSE [ok |-> FALSE, t |-> 0]

(***************************************************************************)
(* Backup.generateFilename                                                 *)
(***************************************************************************)
TypeMysql == <<"m", "y", "s", "q", "l">>
TypePostgresql == <<"p", "o", "s", "t", "g", "r", "e", "s", "q", "l">>
TypeMongodb == <<"m", "o", "n", "g", "o", "d", "b">>
ExtSql == <<".", "s", "q", "l">>
ExtDump == <<".", "d", "u", "m", "p">>
ExtArchive == <<".", "a", "r", "c", "h", "i", "v", "e">>
ExtBackup == <<".", "b", "a", "c", "k", "u", "p">>
ExtGz == <<".", "g", "z">>

\* A faulty variant: the extension table without its default.
ExtensionNoDefault(dbType) ==
    IF dbType = TypeMysql THEN ExtSql
    ELSE IF dbType = TypePostgresql THEN ExtDump
    ELSE ExtArchive

Extension(dbType) ==
    IF dbType = TypeMysql THEN ExtSql
    ELSE IF dbType = TypePostgresql THEN ExtDump
    ELSE IF dbType = TypeMongodb THEN ExtArchive
    ELSE ExtBackup

generateFilename(dbName, dbType, t, offset) ==
    dbName \o <<"_">> \o dbType \o <<"_">> \o TimeFormat(t, offset)
    \o Extension(dbType)

(***************************************************************************)
(* Inputs of the model.                                                    *)
(***************************************************************************)
NameOrders == <<"o", "r", "d", "e", "r", "s">>
NameCrm == <<"c", "r", "m">>
TypeSqlite == <<"s", "q", "l", "i", "t", "e">>

\* The configured databases: the name and the type of each.
Databases ==
    { [name |-> NameOrders, type |-> TypeMysql],
      [name |-> NameCrm, type |-> TypeSqlite] }

\* The instants the clock can show when a run asks for the time.
Instants ==
    { DateUTC(2024, 3, 5, 2, 0, 0), DateUTC(2024, 2, 29, 23, 59, 59) }

\* The offsets east of UTC of the zones the process can run in.
Zones == {0, 7 * 3600}

VARIABLES
    \* ---- one run of Backup.Execute ----
    db,          \* uc.db: the database of the job
    compress,    \* uc.compress
    zone,        \* the offset of the local time zone
    bpc,         \* the position of Execute
    bresult,     \* what Execute returned: "none" while running, "nil", or the failing step
    filename,    \* the generated filename
    finalName,   \* finalFilename, the name handed to the uploads
    tempDir,     \* the files present in os.TempDir()
    defers,      \* the paths whose os.Remove is deferred, in registration order
    calls,       \* how often Ping, Backup and Compress were invoked
    localCalls,  \* the remote names passed to localStorage.Upload
    upState,     \* per target: the state of its upload goroutine
    upOutcome,   \* per target: what its Storage.Upload returned
    upCalls,     \* per target: the remote names passed to Storage.Upload
    errLog,      \* the targets of a "Failed to upload to" log record
    okLog,       \* the targets of a "Successfully uploaded to" log record
    toolOutput,  \* what the dump tool printed in this run
    bdetail,     \* the tool output the returned error carries
    finalPath,   \* finalPath, the local path handed to the uploads
    pathCalls,   \* the local paths passed to an Upload, local or of a target
    cancelled,   \* whether the cancellation signal of the application was raised
    cancelStage, \* the position of Execute when the signal was raised
    cancelUp,    \* the targets whose Upload was in flight when it was raised
    localOutcome \* what localStorage.Upload returned: "none", "ok" or "err"

pathVars == <<finalPath, pathCalls>>

cancelVars == <<cancelled, cancelStage, cancelUp>>

bvars == <<db, compress, zone, bpc, bresult, filename, finalName, tempDir,
           defers, calls, localCalls, upState, upOutcome, upCalls, errLog,
           okLog, toolOutput, bdetail, pathVars, cancelVars, localOutcome>>

VARIABLES
    \* ---- one run of Cleanup.Execute ----
    impl,          \* which cleaner runs
    ucTargets,     \* uc.uploadTargets
    cutoff,        \* the retention cutoff of the run
    cpc,           \* the position of Execute
    cresult,       \* what Execute returned
    store0,        \* per target: the files of its storage when the run starts
    store,         \* per target: the files of its storage
    unit,          \* per target: the position of its cleanupTarget goroutine
    tier,          \* per target: how its deletion list was found
    listed,        \* per target: what its GetOldFiles or List returned
    files,         \* per target: the deletion list
    idx,           \* per target: the index of the next file of the loop
    delCalls,      \* per target: the files passed to Storage.Delete, in order
    deleted,       \* per target: the deleted counter
    discCalls,     \* per target: the discovery operations invoked
    failLog,       \* the targets of a "Cleanup failed for" log record
    warnLog,       \* per target: the files of a "Could not parse" warning
    localStore,    \* the files of the local storage
    localDelCalls  \* the files passed to localStorage.Delete

cvars == <<impl, ucTargets, cutoff, cpc, cresult, store0, store,
           unit, tier, listed, files, idx, delCalls, deleted, discCalls,
           failLog, warnLog, localStore, localDelCalls>>

VARIABLES
    \* ---- the scheduler and the client that drives it (App.Run, App.Shutdown) ----
    sphase,      \* the position of the client: "setup", "started", "stopping", "stopped"
    clock,       \* the current instant, in whole seconds
    running,     \* cron.running
    addLog,      \* the AddJob calls so far: the expression and whether it returned nil
    entries,     \* cron.entries: the job of each registration and its next activation
    inflight,    \* per job: the invocations started by startJob that have not returned
    jobWaiter,   \* cron.jobWaiter: the count of the wait group
    fired,       \* the pairs <<job, instant>> for which startJob was called
    jobFailed,   \* per job: whether an invocation of it has returned an error
    startAt,     \* the instant Start was called at, or NoInstant
    stopAt       \* the instant Stop was called at, or NoInstant

svars == <<sphase, clock, running, addLog, entries, inflight, jobWaiter,
           fired, jobFailed, startAt, stopAt>>

VARIABLES
    \* ---- one round trip of a filename ----
    fimpl,       \* which extractTimestamp reads the name
    fdb,         \* the database: its name and type
    fnow,        \* time.Now(): the seconds and the nanoseconds within the second
    fzone,       \* the offset of the local time zone
    fgz,         \* whether the artifact is compressed
    fpc,         \* the position of the round trip
    fname,       \* the name of the artifact
    fparsed      \* what extractTimestamp returned

fvars == <<fimpl, fdb, fnow, fzone, fgz, fpc, fname, fparsed>>

VARIABLES
    \* ---- pipeline runs in progress at the same time ----
    oclock,      \* the current instant, in whole seconds
    ofired,      \* the pairs <<database, instant>> for which a run was started
    runs,        \* per run: its database, its position and its temp file path
    otemp        \* the paths of the files present in os.TempDir()

ovars == <<oclock, ofired, runs, otemp>>

VARIABLES
    \* ---- one call of LocalStorage.GetOldFiles ----
    ldir,        \* the entries of the base directory: the kind and the modification time of each name
    lcutoff,     \* the cutoff of the call
    lpc,         \* the position of the caller
    lresult,     \* what the call returned
    lbefore      \* the entries of the base directory when the call was made

lvars == <<ldir, lcutoff, lpc, lresult, lbefore>>

VARIABLES
    \* ---- one target used by a pipeline run and by cleanupTarget ----
    tclock,      \* the position of the clock in the instants of the model
    tzone,       \* the offset of the local time zone
    tdays,       \* uc.retentionDays
    trun,        \* the position of the pipeline run
    tname,       \* the filename of the artifact of the run
    tstore,      \* the files of the storage: the name and the time of each
    tops,        \* the storage operations invoked, with the caller of each
    tpass,       \* how many calls of cleanupTarget have begun
    tpc,         \* the position of cleanupTarget
    tcutoff,     \* the cutoff of the calls of cleanupTarget
    ttier,       \* per call: how its deletion set was found
    tfiles,      \* per call: the deletion set
    tdel,        \* per call: the files passed to Storage.Delete
    tfail,       \* per call: the files whose Delete returned an error
    tsince,      \* whether an Upload has stored a file since the first call began
    tduring      \* whether cleanupTarget ran while the Upload was in progress

tvars == <<tclock, tzone, tdays, trun, tname, tstore, tops, tpass, tpc,
           tcutoff, ttier, tfiles, tdel, tfail, tsince, tduring>>

vars == <<bvars, cvars, svars, fvars, ovars, lvars, tvars>>

Range(s) == {s[i] : i \in 1..Len(s)}

\* No output of the dump tool.
NoOutput == ""

InitBackup ==
    /\ db \in Databases
    /\ compress \in BOOLEAN
    /\ zone \in Zones
    /\ bpc = "ping"
    /\ bresult = "none"
    /\ filename = <<>>
    /\ finalName = <<>>
    /\ tempDir = {}
    /\ defers = <<>>
    /\ calls = [op \in {"ping", "dump", "compress"} |-> 0]
    /\ localCalls = <<>>
    /\ upState = [t \in Targets |-> "idle"]
    /\ upOutcome = [t \in Targets |-> "none"]
    /\ upCalls = [t \in Targets |-> <<>>]
    /\ errLog = {}
    /\ okLog = {}
    /\ toolOutput = NoOutput
    /\ bdetail = NoOutput
    /\ finalPath = <<>>
    /\ pathCalls = {}
    /\ cancelled = FALSE
    /\ cancelStage = "none"
    /\ cancelUp = {}
    /\ localOutcome = "none"

\* filepath.Join(os.TempDir(), name): the path of a file of the temp
\* directory.
TempDirPath == <<"/", "t", "m", "p">>

TempPath(name) == TempDirPath \o <<"/">> \o name

\* Whether Done of the context of a job invocation is closed, given
\* whether the signal of the application was raised: the wrapper of AddJob
\* hands every invocation a fresh context.Background().
JobContextDone(raised) == FALSE

\* Whether a call that takes the context of the run can still succeed.
CanSucceed(ok) == JobContextDone(cancelled) => ~ok

\* A return of Execute with the given result: the deferred os.Remove calls
\* run, removing every registered path from the temp directory.
Return(dir, deferred, res) ==
    /\ bpc' = "returned"
    /\ bresult' = res
    /\ tempDir' = dir \ Range(deferred)
    /\ defers' = <<>>

\* A faulty variant: a failed ping is recorded and the run goes on.
PingAndGoOn ==
    /\ bpc = "ping"
    /\ calls' = [calls EXCEPT !["ping"] = @ + 1]
    /\ \E ok \in BOOLEAN, now \in Instants :
         /\ filename' = generateFilename(db.name, db.type, now, zone)
         /\ bpc' = "dump"
         /\ bresult' = IF ok THEN bresult ELSE "ping"
         /\ UNCHANGED <<tempDir, defers>>
    /\ UNCHANGED <<db, compress, zone, finalName, localCalls, upState,
                   upOutcome, upCalls, errLog, okLog>>
    /\ UNCHANGED <<toolOutput, bdetail, pathVars, cancelVars, localOutcome>>
    /\ UNCHANGED <<cvars, svars, fvars, ovars, lvars, tvars>>

\* uc.db.Ping followed, on success, by generateFilename.
Ping ==
    /\ bpc = "ping"
    /\ calls' = [calls EXCEPT !["ping"] = @ + 1]
    /\ \E ok \in BOOLEAN :
         /\ CanSucceed(ok)
         /\ IF ok
            THEN /\ \E now \in Instants :
                      filename' = generateFilename(db.name, db.type, now, zone)
                 /\ bpc' = "dump"
                 /\ UNCHANGED <<bresult, tempDir, defers>>
            ELSE /\ Return(tempDir, defers, "ping")
                 /\ UNCHANGED filename
    /\ UNCHANGED <<db, compress, zone, finalName, localCalls, upState,
                   upOutcome, upCalls, errLog, okLog>>
    /\ UNCHANGED <<toolOutput, bdetail, pathVars, cancelVars, localOutcome>>
    /\ UNCHANGED <<cvars, svars, fvars, ovars, lvars, tvars>>

\* uc.db.Backup(ctx, tempPath): the dump tool writes its result file and
\* can fail before or after it has created it.  The removal of tempPath is
\* deferred only after a successful dump.
DumpOutcomes == {"ok", "fail", "failPartial"}

\* What the dump tool can print on its standard output and error.
ToolOutputs == {NoOutput, "Got error: 1045: Access denied"}

\* A faulty variant: the adapter runs the tool without capturing its output.
DbBackupErrorBare(output) == NoOutput

\* The tool output carried by the error of Database.Backup: the adapters
\* format the combined output of the tool into the error.
DbBackupError(output) == output

Dump ==
    /\ bpc = "dump"
    /\ calls' = [calls EXCEPT !["dump"] = @ + 1]
    /\ \E out \in DumpOutcomes, output \in ToolOutputs :
         LET dir == IF out = "fail" THEN tempDir ELSE tempDir \cup {filename}
         IN  /\ CanSucceed(out = "ok")
             /\ toolOutput' = output
             /\ IF out = "ok"
                THEN /\ tempDir' = dir
                     /\ defers' = Append(defers, filename)
                     /\ bpc' = "stat"
                     /\ UNCHANGED <<bresult, bdetail>>
                ELSE /\ Return(dir, defers, "backup")
                     /\ bdetail' = DbBackupError(output)
    /\ UNCHANGED <<db, compress, zone, filename, finalName, localCalls,
                   upState, upOutcome, upCalls, errLog, okLog>>
    /\ UNCHANGED <<pathVars, cancelVars, localOutcome>>
    /\ UNCHANGED <<cvars, svars, fvars, ovars, lvars, tvars>>

\* A faulty variant: the compression step is entered whatever uc.compress.
StageAfterStatAlways(enabled) == "compress"

\* The step after the dump is known to exist: compressBackup when
\* uc.compress, uploadBackup otherwise.
StageAfterStat(enabled) == IF enabled THEN "compress" ELSE "local"

\* os.Stat(tempPath), then finalPath, finalFilename := tempPath, filename.
Stat ==
    /\ bpc = "stat"
    /\ \E ok \in BOOLEAN :
         IF ok
         THEN /\ bpc' = StageAfterStat(compress)
              /\ finalName' = filename
              /\ finalPath' = TempPath(filename)
              /\ UNCHANGED <<bresult, tempDir, defers>>
         ELSE /\ Return(tempDir, defers, "stat")
              /\ UNCHANGED <<finalName, finalPath>>
    /\ UNCHANGED <<db, compress, zone, filename, calls, localCalls, upState,
                   upOutcome, upCalls, errLog, okLog>>
    /\ UNCHANGED <<toolOutput, bdetail, pathCalls, cancelVars, localOutcome>>
    /\ UNCHANGED <<cvars, svars, fvars, ovars, lvars, tvars>>

\* compressBackup: GzipCompressor.Compress creates the destination and can
\* fail before or after it has created it.  The removal of the compressed
\* path is deferred only after a successful compression.
CompressOutcomes == {"ok", "fail", "failPartial"}

\* A faulty variant: after a failed compression the raw dump is uploaded.
CompressOrUploadRaw ==
    /\ bpc = "compress"
    /\ calls' = [calls EXCEPT !["compress"] = @ + 1]
    /\ \E out \in CompressOutcomes :
         LET gz  == filename \o ExtGz
             dir == IF out = "fail" THEN tempDir ELSE tempDir \cup {gz}
         IN  /\ tempDir' = dir
             /\ bpc' = "local"
             /\ IF out = "ok"
                THEN /\ defers' = Append(defers, gz)
                     /\ finalName' = gz
                     /\ finalPath' = TempPath(gz)
                     /\ UNCHANGED bresult
                ELSE /\ bresult' = "compression"
                     /\ UNCHANGED <<defers, finalName, finalPath>>
    /\ UNCHANGED <<db, compress, zone, filename, localCalls, upState,
                   upOutcome, upCalls, errLog, okLog>>
    /\ UNCHANGED <<toolOutput, bdetail, pathCalls, cancelVars, localOutcome>>
    /\ UNCHANGED <<cvars, svars, fvars, ovars, lvars, tvars>>

\* A faulty variant: the name of the compressed file is the raw name.
compressedFilenameRaw(name) == name

\* compressedFilename := filename + ".gz"
compressedFilename(name) == name \o ExtGz

\* uc.compressor.Compress(tempPath, compressedPath) takes no context.  On
\* success Execute takes compressedPath and compressedFilename as finalPath
\* and finalFilename.
Compress ==
    /\ bpc = "compress"
    /\ calls' = [calls EXCEPT !["compress"] = @ + 1]
    /\ \E out \in CompressOutcomes :
         LET gz  == compressedFilename(filename)
             dir == IF out = "fail" THEN tempDir ELSE tempDir \cup {gz}
         IN  IF out = "ok"
             THEN /\ tempDir' = dir
                  /\ defers' = Append(defers, gz)
                  /\ finalName' = gz
                  /\ finalPath' = TempPath(gz)
                  /\ bpc' = "local"
                  /\ UNCHANGED bresult
             ELSE /\ Return(dir, defers, "compression")
                  /\ UNCHANGED <<finalName, finalPath>>
    /\ UNCHANGED <<db, compress, zone, filename, localCalls, upState,
                   upOutcome, upCalls, errLog, okLog>>
    /\ UNCHANGED <<toolOutput, bdetail, pathCalls, cancelVars, localOutcome>>
    /\ UNCHANGED <<cvars, svars, fvars, ovars, lvars, tvars>>

\* The targets for which uploadToTargets starts a goroutine.
SpawnSet == Targets

\* A faulty variant: uploadBackup goes on to the targets whatever the
\* upload to local storage returned.
StageAfterLocalAlways(ok) == "fanout"

\* The position of Execute after localStorage.Upload has returned:
\* uploadBackup returns the error of a failed local upload, and calls
\* uploadToTargets only after a successful one.
StageAfterLocal(ok) == IF ok THEN "fanout" ELSE "returned"

\* uploadBackup: the upload to local storage and, when it succeeds, the
\* loop of uploadToTargets that starts one goroutine per target.
LocalUpload ==
    /\ bpc = "local"
    /\ localCalls' = Append(localCalls, finalName)
    /\ pathCalls' = pathCalls \cup {finalPath}
    /\ \E ok \in BOOLEAN :
         /\ localOutcome' = IF ok THEN "ok" ELSE "err"
         /\ IF StageAfterLocal(ok) = "fanout"
            THEN /\ bpc' = "fanout"
                 /\ upState' = [t \in Targets |->
                                  IF t \in SpawnSet
                                  THEN "spawned" ELSE upState[t]]
                 /\ UNCHANGED <<bresult, tempDir, defers>>
            ELSE /\ Return(tempDir, defers, "local upload")
                 /\ UNCHANGED upState
    /\ UNCHANGED <<db, compress, zone, filename, finalName, calls, upOutcome,
                   upCalls, errLog, okLog>>
    /\ UNCHANGED <<toolOutput, bdetail, finalPath, cancelVars>>
    /\ UNCHANGED <<cvars, svars, fvars, ovars, lvars, tvars>>

\* A goroutine of uploadToTargets calls t.Storage.Upload.
UploadStart(t) ==
    /\ bpc = "fanout"
    /\ upState[t] = "spawned"
    /\ upState' = [upState EXCEPT ![t] = "running"]
    /\ upCalls' = [upCalls EXCEPT ![t] = Append(@, finalName)]
    /\ pathCalls' = pathCalls \cup {finalPath}
    /\ UNCHANGED <<db, compress, zone, bpc, bresult, filename, finalName,
                   tempDir, defers, calls, localCalls, upOutcome, errLog,
                   okLog>>
    /\ UNCHANGED <<toolOutput, bdetail, finalPath, cancelVars, localOutcome>>
    /\ UNCHANGED <<cvars, svars, fvars, ovars, lvars, tvars>>

\* A faulty variant: a failed upload cancels the uploads not yet started.
AfterUploadCancel(st, t, ok) ==
    [u \in Targets |->
        IF u = t \/ (~ok /\ st[u] = "spawned") THEN "done" ELSE st[u]]

\* A faulty variant: a failed upload is started again.
AfterUploadRetry(st, t, ok) ==
    [st EXCEPT ![t] = IF ok THEN "done" ELSE "spawned"]

\* The states of the goroutines after the Upload of target t has returned:
\* only the goroutine of t is affected, it is done.
AfterUpload(st, t, ok) == [st EXCEPT ![t] = "done"]

\* t.Storage.Upload returns in the goroutine of target t; the outcome is
\* logged and the goroutine ends (wg.Done).
UploadReturn(t) ==
    /\ bpc = "fanout"
    /\ upState[t] = "running"
    /\ \E ok \in BOOLEAN :
         /\ CanSucceed(ok)
         /\ upState' = AfterUpload(upState, t, ok)
         /\ upOutcome' = [upOutcome EXCEPT ![t] = IF ok THEN "ok" ELSE "err"]
         /\ errLog' = IF ok THEN errLog ELSE errLog \cup {t}
         /\ okLog' = IF ok THEN okLog \cup {t} ELSE okLog
    /\ UNCHANGED <<db, compress, zone, bpc, bresult, filename, finalName,
                   tempDir, defers, calls, localCalls, upCalls>>
    /\ UNCHANGED <<toolOutput, bdetail, pathVars, cancelVars, localOutcome>>
    /\ UNCHANGED <<cvars, svars, fvars, ovars, lvars, tvars>>

\* A faulty variant: a failed upload fails the run.
ResultAfterFanoutErr(failed) == IF failed # {} THEN "upload" ELSE "nil"

\* What Execute returns once uploadToTargets has joined, given the targets
\* whose Upload failed: uploadToTargets returns nothing, so Execute
\* returns nil.
ResultAfterFanout(failed) == "nil"

\* A faulty variant: uploadToTargets returns without waiting.
WaitReturnsAtOnce(st) == TRUE

\* Whether wg.Wait() of uploadToTargets can return: every goroutine the
\* loop started has called wg.Done.
WaitReturns(st) == \A t \in SpawnSet : st[t] = "done"

\* wg.Wait() returns when every goroutine is done; Execute then returns.
Join ==
    /\ bpc = "fanout"
    /\ WaitReturns(upState)
    /\ Return(tempDir, defers,
              ResultAfterFanout({t \in Targets : upOutcome[t] = "err"}))
    /\ UNCHANGED <<db, compress, zone, filename, finalName, calls,
                   localCalls, upState, upOutcome, upCalls, errLog, okLog>>
    /\ UNCHANGED <<toolOutput, bdetail, pathVars, cancelVars, localOutcome>>
    /\ UNCHANGED <<cvars, svars, fvars, ovars, lvars, tvars>>

\* The cancellation signal of the application is raised while the run is
\* in progress (main cancels the context of App.Run on SIGINT or SIGTERM).
Cancel ==
    /\ bpc # "returned"
    /\ ~cancelled
    /\ cancelled' = TRUE
    /\ cancelStage' = bpc
    /\ cancelUp' = {t \in Targets : upState[t] = "running"}
    /\ UNCHANGED <<db, compress, zone, bpc, bresult, filename, finalName,
                   tempDir, defers, calls, localCalls, upState, upOutcome,
                   upCalls, errLog, okLog, toolOutput, bdetail, pathVars,
                   localOutcome>>
    /\ UNCHANGED <<cvars, svars, fvars, ovars, lvars, tvars>>

NextBackupRun ==
    \/ Cancel
    \/ Ping
    \/ Dump
    \/ Stat
    \/ Compress
    \/ LocalUpload
    \/ \E t \in Targets : UploadStart(t)
    \/ \E t \in Targets : UploadReturn(t)
    \/ Join

(***************************************************************************)
(* The retention cleaner.  The repository holds three cleaners:            *)
(*   "Cleanup3"        usecase.Cleanup, NewCleanup(uploadTargets, logger,  *)
(*                     retentionDays), the one app.New constructs;         *)
(*   "Cleanup4"        usecase.Cleanup with a local storage,               *)
(*                     NewCleanup(localStorage, uploadTargets, ...);       *)
(*   "CleanupUseCase"  usecase.CleanupUseCase.                             *)
(***************************************************************************)
CleanupImpls == {"Cleanup3", "Cleanup4", "CleanupUseCase"}

RetentionDays == 7

\* The instant time.Now() shows when a cleanup run starts.
CleanupInstants == { DateUTC(2024, 3, 10, 0, 0, 0) }

NameNotes == <<"n", "o", "t", "e", "s", ".", "t", "x", "t">>

\* A file name with a month that does not exist.
NameBadMonth ==
    NameCrm \o <<"_">> \o TypeSqlite \o <<"_">>
    \o <<"2", "0", "2", "4", "1", "3", "4", "5">> \o <<"_">>
    \o <<"0", "2", "0", "0", "0", "0">> \o ExtBackup

\* The files a storage can hold: the name of each and the creation or
\* modification time the storage keeps for it.
MasterFiles ==
    << [name  |-> generateFilename(NameOrders, TypeMysql,
                                   DateUTC(2024, 3, 1, 2, 0, 0), 0) \o ExtGz,
        mtime |-> DateUTC(2024, 3, 1, 2, 0, 5)],
       [name  |-> generateFilename(NameOrders, TypeMysql,
                                   DateUTC(2024, 3, 9, 2, 0, 0), 0) \o ExtGz,
        mtime |-> DateUTC(2024, 3, 9, 2, 0, 5)],
       [name  |-> generateFilename(NameCrm, TypeSqlite,
                                   DateUTC(2024, 2, 29, 23, 59, 59), 0),
        mtime |-> DateUTC(2024, 3, 1, 0, 0, 3)],
       [name  |-> generateFilename(NameOrders, TypeMysql,
                                   DateUTC(2024, 3, 3, 0, 0, 0), 0),
        mtime |-> DateUTC(2024, 3, 3, 0, 0, 5)],
       [name  |-> NameNotes,
        mtime |-> DateUTC(2024, 1, 1, 0, 0, 0)],
       [name  |-> NameBadMonth,
        mtime |-> DateUTC(2024, 2, 1, 2, 0, 0)] >>

FileIds == 1..Len(MasterFiles)

FileName(f) == MasterFiles[f].name

\* The file of a storage that has the given name.
FileOfName(n) == CHOOSE f \in FileIds : FileName(f) = n

\* The contents a storage can start with: at most MaxFiles files.
DirStarts == {1, 3, 5}

Dirs == { {f \in FileIds : i <= f /\ f < i + MaxFiles} : i \in DirStarts }

\* The elements of a set of files in listing order.
Listing(S) == SelectSeq([f \in FileIds |-> f], LAMBDA f : f \in S)

\* Storage.GetOldFiles(cutoff) of the S3, Google Drive and local backends:
\* the names of the files the storage dates before the cutoff.
GetOldFiles(S, c) ==
    SelectSeq(Listing(S), LAMBDA f : MasterFiles[f].mtime < c)

\* extractTimestamp of the name of each file.
Parsed ==
    LET p(f) == extractTimestamp(FileName(f))
    IN  <<p(1), p(2), p(3), p(4), p(5), p(6)>>

\* A faulty variant: a timestamp equal to the cutoff counts as expired.
ParsedBeforeOrAt(f, c) == Parsed[f].ok /\ Parsed[f].t <= c

\* The test of the loop of fallbackListFiles: the timestamp parses and
\* timestamp.Before(cutoff).
ParsedBefore(f, c) == Parsed[f].ok /\ Parsed[f].t < c

\* fallbackListFiles on the listing of a storage: the files to delete.
fallbackListFiles(list, c) ==
    SelectSeq(list, LAMBDA f : ParsedBefore(f, c))

\* NewCleanup: the uploadTargets field of the constructed cleaner.
\* NewCleanup(uploadTargets, logger, retentionDays) sets only logger and
\* retentionDays.
NewCleanup(i, handedTargets) ==
    IF i = "Cleanup3" THEN {} ELSE handedTargets

\* The files of the local storage when a run starts.
LocalDir == {1, 2}

InitCleanup ==
    /\ impl \in CleanupImpls
    /\ ucTargets = NewCleanup(impl, Targets)
    /\ cutoff = 0
    /\ cpc = "idle"
    /\ cresult = "none"
    /\ store0 \in [Targets -> Dirs]
    /\ store = store0
    /\ unit = [t \in Targets |-> "idle"]
    /\ tier = [t \in Targets |-> "none"]
    /\ listed = [t \in Targets |-> <<>>]
    /\ files = [t \in Targets |-> <<>>]
    /\ idx = [t \in Targets |-> 1]
    /\ delCalls = [t \in Targets |-> <<>>]
    /\ deleted = [t \in Targets |-> 0]
    /\ discCalls = [t \in Targets |-> {}]
    /\ failLog = {}
    /\ warnLog = [t \in Targets |-> {}]
    /\ localStore = LocalDir
    /\ localDelCalls = <<>>

\* cleanupLocal of the cleaners that hold a local storage: List, then for
\* each listed file os.Stat and, when its modification time is before the
\* cutoff, Delete.  listOk, statFail and delFail are the outcomes of the
\* calls; the result is the sequence of files passed to Delete.
LocalCandidates(list, statFail, c) ==
    SelectSeq(list,
              LAMBDA f : f \notin statFail /\ MasterFiles[f].mtime < c)

cleanupLocal(c) ==
    IF impl = "Cleanup3"
    THEN UNCHANGED <<localStore, localDelCalls>>
    ELSE \E listOk \in BOOLEAN, statFail \in SUBSET localStore,
            delFail \in SUBSET localStore :
           LET cand == IF listOk
                       THEN LocalCandidates(Listing(localStore), statFail, c)
                       ELSE <<>>
           IN  /\ localDelCalls' = localDelCalls \o cand
               /\ localStore' = localStore \ (Range(cand) \ delFail)

\* The first step of the goroutine of a target, given whether its Storage
\* has a GetOldFiles operation: CleanupUseCase lists a storage without
\* one, every other case queries the storage.
FirstStep(native) ==
    IF impl = "CleanupUseCase" /\ ~native THEN "list" ELSE "query"

\* A faulty variant: a failed target fails the run.
CleanupResultErr(failed) == IF failed # {} THEN "error" ELSE "nil"

\* What Execute returns, given the targets whose cleanup failed.
CleanupResult(failed) == "nil"

\* Cleanup.Execute up to wg.Wait(): the cutoff, the local cleanup, and the
\* loop of cleanupTargets that starts one goroutine per target; without
\* targets Execute returns at once.
ExecuteStart ==
    /\ cpc = "idle"
    /\ \E now \in CleanupInstants :
         LET c == AddDays(now, -RetentionDays)
         IN  /\ cutoff' = c
             /\ cleanupLocal(c)
    /\ IF ucTargets # {}
       THEN /\ \E native \in [Targets -> BOOLEAN] :
                 unit' = [t \in Targets |->
                            IF t \in ucTargets
                            THEN FirstStep(native[t]) ELSE unit[t]]
            /\ cpc' = "waiting"
            /\ UNCHANGED cresult
       ELSE /\ cpc' = "returned"
            /\ cresult' = CleanupResult({})
            /\ UNCHANGED unit
    /\ UNCHANGED <<impl, ucTargets, store0, store, tier, listed,
                   files, idx, delCalls, deleted, discCalls, failLog,
                   warnLog>>
    /\ UNCHANGED <<bvars, svars, fvars, ovars, lvars, tvars>>

\* The position of a goroutine that has its deletion list.
AfterDiscovery(list) == IF list = <<>> THEN "done" ELSE "deleting"

\* A faulty variant: a failed GetOldFiles ends the cleanup of the target.
AfterQueryErrorFail == "done"

\* What a goroutine does when its GetOldFiles failed: Cleanup falls back to
\* the listing, CleanupUseCase returns the error.
AfterQueryError == IF impl = "CleanupUseCase" THEN "done" ELSE "list"

\* A faulty variant: the goroutine of a target computes a cutoff of its
\* own, from a later reading of the clock.
TargetCutoffOwn(t) == AddDays(cutoff, t)

\* The cutoff parameter of cleanupTarget in the goroutine of target t: the
\* value Execute computed, passed by value.
TargetCutoff(t) == cutoff

\* A faulty variant: the loop iterates every file of the storage.
Tier1ListAll(t) == Listing(store[t])

\* The list cleanupTarget iterates after a successful query: the files
\* that target.Storage.GetOldFiles(ctx, cutoff) returned.
Tier1List(t) == GetOldFiles(store[t], TargetCutoff(t))

\* cleanupTarget calls target.Storage.GetOldFiles(ctx, cutoff).
Query(t) ==
    /\ cpc = "waiting"
    /\ unit[t] = "query"
    /\ discCalls' = [discCalls EXCEPT ![t] = @ \cup {"GetOldFiles"}]
    /\ \E ok \in BOOLEAN :
         IF ok
         THEN LET res == GetOldFiles(store[t], TargetCutoff(t))
              IN  /\ listed' = [listed EXCEPT ![t] = res]
                  /\ files' = [files EXCEPT ![t] = Tier1List(t)]
                  /\ tier' = [tier EXCEPT ![t] = "tier1"]
                  /\ unit' = [unit EXCEPT ![t] = AfterDiscovery(Tier1List(t))]
                  /\ UNCHANGED failLog
         ELSE /\ unit' = [unit EXCEPT ![t] = AfterQueryError]
              /\ tier' = [tier EXCEPT ![t] =
                            IF AfterQueryError = "done" THEN "failed" ELSE @]
              /\ failLog' = IF AfterQueryError = "done"
                            THEN failLog \cup {t} ELSE failLog
              /\ UNCHANGED <<listed, files>>
    /\ UNCHANGED <<impl, ucTargets, cutoff, cpc, cresult, store0,
                   store, idx, delCalls, deleted, warnLog, localStore,
                   localDelCalls>>
    /\ UNCHANGED <<bvars, svars, fvars, ovars, lvars, tvars>>

\* A faulty variant: after a failed List the loop runs over the storage.
FilesAfterListErrorStale(t) == Listing(store[t])

\* The deletion list of a goroutine whose List failed: none, it returns
\* the error.
FilesAfterListError(t) == <<>>

\* The fallback: target.Storage.List(ctx) and the timestamp of each name.
List(t) ==
    /\ cpc = "waiting"
    /\ unit[t] = "list"
    /\ discCalls' = [discCalls EXCEPT ![t] = @ \cup {"List"}]
    /\ \E ok \in BOOLEAN :
         IF ok
         THEN LET all == Listing(store[t])
                  old == fallbackListFiles(all, TargetCutoff(t))
              IN  /\ listed' = [listed EXCEPT ![t] = all]
                  /\ files' = [files EXCEPT ![t] = old]
                  /\ warnLog' = [warnLog EXCEPT ![t] =
                        {f \in Range(all) : ~Parsed[f].ok}]
                  /\ tier' = [tier EXCEPT ![t] = "tier2"]
                  /\ unit' = [unit EXCEPT ![t] = AfterDiscovery(old)]
                  /\ UNCHANGED failLog
         ELSE /\ files' = [files EXCEPT ![t] = FilesAfterListError(t)]
              /\ tier' = [tier EXCEPT ![t] = "failed"]
              /\ unit' = [unit EXCEPT ![t] =
                            AfterDiscovery(FilesAfterListError(t))]
              /\ failLog' = failLog \cup {t}
              /\ UNCHANGED <<listed, warnLog>>
    /\ UNCHANGED <<impl, ucTargets, cutoff, cpc, cresult, store0,
                   store, idx, delCalls, deleted, localStore, localDelCalls>>
    /\ UNCHANGED <<bvars, svars, fvars, ovars, lvars, tvars>>

\* A faulty variant: a failed Delete ends the loop.
NextIndexBreak(i, n, ok) == IF ok THEN i + 1 ELSE n + 1

\* The index of the deletion loop after a Delete: the loop goes on to the
\* next file whatever Delete returned.
NextIndex(i, n, ok) == i + 1

\* A faulty variant: the goroutines count in one shared counter.
DeletedAfterShared(cnt, t, ok) ==
    [u \in Targets |-> IF ok THEN cnt[t] + 1 ELSE cnt[u]]

\* The deleted counters after a Delete in the goroutine of target t: the
\* counter is a local variable of cleanupTarget, deleted++ on success.
DeletedAfter(cnt, t, ok) == [cnt EXCEPT ![t] = IF ok THEN @ + 1 ELSE @]

\* One iteration of the deletion loop: target.Storage.Delete(ctx, filename).
Delete(t) ==
    /\ cpc = "waiting"
    /\ unit[t] = "deleting"
    /\ LET f == files[t][idx[t]]
       IN  /\ delCalls' = [delCalls EXCEPT ![t] = Append(@, f)]
           /\ \E ok \in BOOLEAN :
                /\ store' = [store EXCEPT ![t] = IF ok THEN @ \ {f} ELSE @]
                /\ deleted' = DeletedAfter(deleted, t, ok)
                /\ idx' = [idx EXCEPT ![t] = NextIndex(@, Len(files[t]), ok)]
                /\ unit' = [unit EXCEPT ![t] =
                              IF idx'[t] > Len(files[t])
                              THEN "done" ELSE "deleting"]
    /\ UNCHANGED <<impl, ucTargets, cutoff, cpc, cresult, store0,
                   tier, listed, files, discCalls, failLog, warnLog,
                   localStore, localDelCalls>>
    /\ UNCHANGED <<bvars, svars, fvars, ovars, lvars, tvars>>

\* The goroutines wg.Wait() of cleanupTargets waits for.
JoinSet == ucTargets

\* wg.Wait() of cleanupTargets returns; Execute returns nil.
JoinCleanup ==
    /\ cpc = "waiting"
    /\ \A t \in JoinSet : unit[t] = "done"
    /\ cpc' = "returned"
    /\ cresult' = CleanupResult(failLog)
    /\ UNCHANGED <<impl, ucTargets, cutoff, store0, store, unit,
                   tier, listed, files, idx, delCalls, deleted, discCalls,
                   failLog, warnLog, localStore, localDelCalls>>
    /\ UNCHANGED <<bvars, svars, fvars, ovars, lvars, tvars>>

NextCleanupRun ==
    \/ ExecuteStart
    \/ \E t \in Targets : Query(t)
    \/ \E t \in Targets : List(t)
    \/ \E t \in Targets : Delete(t)
    \/ JoinCleanup

(***************************************************************************)
(* The schedule parser of cron.New(cron.WithSeconds()): an expression is   *)
(* six fields (second, minute, hour, day of month, month, day of week) or  *)
(* a descriptor.  Numbers are written in digits; the names of months and   *)
(* days and a TZ= prefix are not modelled.                                 *)
(***************************************************************************)
\* The positions of the character c in s.
Positions(s, c) == {i \in 1..Len(s) : s[i] = c}

\* The k-th smallest element of a set of numbers.
KthOf(S, k) == CHOOSE x \in S : Cardinality({y \in S : y < x}) = k - 1

\* strings.Split(s, c) for a separator of one character.
Split(s, c) ==
    LET P == Positions(s, c)
        n == Cardinality(P)
        cut(k) == IF k = 0 THEN 0
                  ELSE IF k = n + 1 THEN Len(s) + 1 ELSE KthOf(P, k)
    IN  [k \in 1..(n + 1) |-> SubSeq(s, cut(k - 1) + 1, cut(k) - 1)]

NonEmpty(parts) == SelectSeq(parts, LAMBDA p : p # <<>>)

\* strings.Fields: the parts between runs of spaces.
Fields(s) == NonEmpty(Split(s, " "))

HasPrefix(s, pre) == Len(s) >= Len(pre) /\ SubSeq(s, 1, Len(pre)) = pre

\* mustParseInt: a number of at most three digits.
ParseNumber(s) ==
    IF Len(s) \in 1..3 /\ AllDigits(s)
    THEN [ok |-> TRUE,
          n  |-> CASE Len(s) = 1 -> DigitVal(s[1])
                   [] Len(s) = 2 -> DigitVal(s[1]) * 10 + DigitVal(s[2])
                   [] Len(s) = 3 -> DigitVal(s[1]) * 100 + DigitVal(s[2]) * 10
                                    + DigitVal(s[3])]
    ELSE [ok |-> FALSE, n |-> 0]

\* getBits: the values from lo to hi by step.
getBits(lo, hi, step) == {v \in lo..hi : (v - lo) % step = 0}

\* The checks and the result of getRange once the expression is taken
\* apart: nStep and nRange are the numbers of parts around "/" and "-",
\* isStar tells a "*" or "?", first, last and stepP are the numbers read.
getRangeResult(nStep, nRange, isStar, first, last, stepP, lo, hi) ==
    LET start == IF isStar THEN lo ELSE first.n
        end   == IF isStar \/ (nStep = 2 /\ nRange = 1) THEN hi ELSE last.n
        bad   == \/ ~isStar /\ (~first.ok \/ ~last.ok \/ nRange > 2)
                 \/ nStep > 2
                 \/ ~stepP.ok
                 \/ start < lo
                 \/ end > hi
                 \/ start > end
                 \/ stepP.n = 0
    IN  IF bad
        THEN [ok |-> FALSE, set |-> {}, star |-> FALSE]
        ELSE [ok   |-> TRUE,
              set  |-> getBits(start, end, stepP.n),
              star |-> isStar /\ stepP.n <= 1]

\* getRange after its two calls of strings.Split: the numbers are read
\* with mustParseInt, a missing step is 1, a missing high end is the low.
getRangeParts(rangeAndStep, lowAndHigh, lo, hi) ==
    getRangeResult(Len(rangeAndStep), Len(lowAndHigh),
                   lowAndHigh[1] \in {<<"*">>, <<"?">>},
                   ParseNumber(lowAndHigh[1]),
                   IF Len(lowAndHigh) = 2
                   THEN ParseNumber(lowAndHigh[2])
                   ELSE ParseNumber(lowAndHigh[1]),
                   IF Len(rangeAndStep) = 2
                   THEN ParseNumber(rangeAndStep[2])
                   ELSE [ok |-> TRUE, n |-> 1],
                   lo, hi)

\* getRange: number | number "-" number | "*" | "?", each with an
\* optional "/" step; the values and whether the star bit is set.
getRange(expr, lo, hi) ==
    LET rangeAndStep == Split(expr, "/")
    IN  getRangeParts(rangeAndStep, Split(rangeAndStep[1], "-"), lo, hi)

\* The ranges of a field put together: the field is good when each range
\* is, its values are those of all ranges.
getFieldResult(rs) ==
    [ok   |-> \A k \in DOMAIN rs : rs[k].ok,
     set  |-> UNION {rs[k].set : k \in DOMAIN rs},
     star |-> \E k \in DOMAIN rs : rs[k].star]

\* getField after strings.FieldsFunc has cut the field at its commas.
getFieldRanges(ranges, lo, hi) ==
    getFieldResult([k \in DOMAIN ranges |-> getRange(ranges[k], lo, hi)])

\* getField: a comma-separated list of ranges.
getField(field, lo, hi) == getFieldRanges(NonEmpty(Split(field, ",")), lo, hi)

ParseError == [ok |-> FALSE, kind |-> "none"]

\* A SpecSchedule.
SpecSchedule(second, minute, hour, dom, month, dow, domStar, dowStar) ==
    [ok |-> TRUE, kind |-> "spec", second |-> second, minute |-> minute,
     hour |-> hour, dom |-> dom, month |-> month, dow |-> dow,
     domStar |-> domStar, dowStar |-> dowStar]

\* time.ParseDuration of a number followed by the unit s, m or h, in
\* seconds.
ParseDuration(s) ==
    IF Len(s) < 2 THEN [ok |-> FALSE, n |-> 0]
    ELSE LET num  == ParseNumber(SubSeq(s, 1, Len(s) - 1))
             u    == s[Len(s)]
         IN  IF num.ok /\ u \in {"s", "m", "h"}
             THEN [ok |-> TRUE,
                   n  |-> num.n * (CASE u = "s" -> 1 [] u = "m" -> 60
                                     [] u = "h" -> 3600)]
             ELSE [ok |-> FALSE, n |-> 0]

DescYearly == <<"@", "y", "e", "a", "r", "l", "y">>
DescAnnually == <<"@", "a", "n", "n", "u", "a", "l", "l", "y">>
DescMonthly == <<"@", "m", "o", "n", "t", "h", "l", "y">>
DescWeekly == <<"@", "w", "e", "e", "k", "l", "y">>
DescDaily == <<"@", "d", "a", "i", "l", "y">>
DescMidnight == <<"@", "m", "i", "d", "n", "i", "g", "h", "t">>
DescHourly == <<"@", "h", "o", "u", "r", "l", "y">>
DescEvery == <<"@", "e", "v", "e", "r", "y", " ">>

\* parseDescriptor: the named schedules and "@every <duration>"; Every
\* rounds a delay below one second up to one second.
parseDescriptor(spec) ==
    IF spec \in {DescYearly, DescAnnually}
    THEN SpecSchedule({0}, {0}, {0}, {1}, {1}, 0..6, FALSE, TRUE)
    ELSE IF spec = DescMonthly
    THEN SpecSchedule({0}, {0}, {0}, {1}, 1..12, 0..6, FALSE, TRUE)
    ELSE IF spec = DescWeekly
    THEN SpecSchedule({0}, {0}, {0}, 1..31, 1..12, {0}, TRUE, FALSE)
    ELSE IF spec \in {DescDaily, DescMidnight}
    THEN SpecSchedule({0}, {0}, {0}, 1..31, 1..12, 0..6, TRUE, TRUE)
    ELSE IF spec = DescHourly
    THEN SpecSchedule({0}, {0}, 0..23, 1..31, 1..12, 0..6, TRUE, TRUE)
    ELSE IF HasPrefix(spec, DescEvery)
    THEN LET d == ParseDuration(SubSeq(spec, Len(DescEvery) + 1, Len(spec)))
         IN  IF d.ok
             THEN [ok |-> TRUE, kind |-> "every",
                   delay |-> IF d.n < 1 THEN 1 ELSE d.n]
             ELSE ParseError
    ELSE ParseError

\* The schedule of six parsed fields: an error when one of them is bad.
FieldsSchedule(second, minute, hour, dom, month, dow) ==
    IF /\ second.ok
       /\ minute.ok
       /\ hour.ok
       /\ dom.ok
       /\ month.ok
       /\ dow.ok
    THEN SpecSchedule(second.set, minute.set, hour.set, dom.set, month.set,
                      dow.set, dom.star, dow.star)
    ELSE ParseError

\* Parser.Parse after strings.Fields: normalizeFields demands exactly six
\* fields, each field is parsed within its bounds.
ParseFields(fields) ==
    IF Len(fields) # 6 THEN ParseError
    ELSE FieldsSchedule(getField(fields[1], 0, 59), getField(fields[2], 0, 59),
                        getField(fields[3], 0, 23), getField(fields[4], 1, 31),
                        getField(fields[5], 1, 12), getField(fields[6], 0, 6))

\* Parser.Parse with the options Second | Minute | Hour | Dom | Month |
\* Dow | Descriptor: an empty expression fails, an expression that starts
\* with "@" is a descriptor, any other must have exactly six fields.
Parse(spec) ==
    IF Len(spec) = 0 THEN ParseError
    ELSE IF spec[1] = "@" THEN parseDescriptor(spec)
    ELSE ParseFields(Fields(spec))

\* SpecSchedule: whether the instant t matches; the day matches on both
\* day fields when one of them is a star, on either otherwise.
SpecMatches(sc, t) ==
    LET days     == t \div SecondsPerDay
        sod      == t % SecondsPerDay
        c        == CivilFromDays(days)
        domMatch == c.d \in sc.dom
        dowMatch == ((days + 4) % 7) \in sc.dow
    IN  /\ (sod % 60) \in sc.second
        /\ ((sod % 3600) \div 60) \in sc.minute
        /\ (sod \div 3600) \in sc.hour
        /\ c.m \in sc.month
        /\ IF sc.domStar \/ sc.dowStar
           THEN domMatch /\ dowMatch
           ELSE domMatch \/ dowMatch

(***************************************************************************)
(* The scheduler (scheduler.Scheduler over cron.Cron) and the client that  *)
(* drives it as App.Run and App.Shutdown do: AddJob calls, Start, Stop.    *)
(* Time advances in whole seconds and the timer of the run loop fires at   *)
(* the second it was set for.  The location of the scheduler is UTC.       *)
(***************************************************************************)
MaxAdds == 2

MaxTicks == 4

MaxInflight == 2

Jobs == 1..MaxAdds

\* The schedule expressions handed to AddJob.
ExprEverySecond == <<"*", " ", "*", " ", "*", " ", "*", " ", "*", " ", "*">>
ExprCleanup == <<"0", " ", "0", " ", "3", " ", "*", " ", "*", " ", "*">>
ExprEvenSeconds ==
    <<"*", "/", "2", " ", "*", " ", "*", " ", "*", " ", "*", " ", "*">>
ExprInvalid == <<"i", "n", "v", "a", "l", "i", "d", " ", "s", "p", "e", "c">>
ExprBadSecond ==
    <<"6", "0", " ", "*", " ", "*", " ", "*", " ", "*", " ", "*">>
ExprEvery2s == <<"@", "e", "v", "e", "r", "y", " ", "2", "s">>

CronExprs ==
    << ExprEverySecond, ExprCleanup, ExprEvenSeconds, ExprInvalid,
       ExprBadSecond, ExprEvery2s >>

ExprIds == 1..Len(CronExprs)

\* The instant the clock shows when the scheduler is constructed, and the
\* last instant of the model.
ClockStart == DateUTC(2024, 3, 10, 2, 59, 58)

Horizon == ClockStart + MaxTicks

NoInstant == -1

\* Schedule.Next(t) of the schedule sc: the first instant after t that
\* matches, for "@every" t plus the delay.  An instant after the horizon
\* stands for every later one.
ScheduleNext(sc, t) ==
    IF sc.kind = "every" THEN t + sc.delay
    ELSE LET M == {u \in (t + 1)..Horizon : SpecMatches(sc, u)}
         IN  IF M = {} THEN Horizon + 1 ELSE KthOf(M, 1)

\* sort.Sort(byTime(c.entries)): the orders of the entries by their next
\* activation; the order of entries with equal activations is not fixed.
SortedByTime(es) ==
    {q \in [1..Len(es) -> Range(es)] :
        /\ Range(q) = Range(es)
        /\ \A i \in 1..(Len(es) - 1) : q[i].next <= q[i + 1].next}

SchedulerInit ==
    /\ sphase = "setup"
    /\ clock = ClockStart
    /\ running = FALSE
    /\ addLog = <<>>
    /\ entries = <<>>
    /\ inflight = [k \in Jobs |-> 0]
    /\ jobWaiter = 0
    /\ fired = {}
    /\ jobFailed = [k \in Jobs |-> FALSE]
    /\ startAt = NoInstant
    /\ stopAt = NoInstant

\* cron.AddFunc before Start: c.entries after the call for job k, sc being
\* what Parse made of the expression; an entry keeps its schedule.
EntriesAfterAdd(es, k, sc) ==
    IF sc.ok
    THEN Append(es, [job |-> k, schedule |-> sc, next |-> NoInstant])
    ELSE es

\* A faulty variant: App.Run goes on after a failed registration.
RunGoesOnAlways(log) == TRUE

\* Whether App.Run is still registering or may start the scheduler: it
\* returns the error of the first AddJob that fails.
RunGoesOn(log) == \A i \in 1..Len(log) : log[i].ok

\* Scheduler.AddJob(spec, job): the error of cron.AddFunc is returned.
AddJob(x) ==
    /\ sphase = "setup"
    /\ RunGoesOn(addLog)
    /\ Len(addLog) < MaxAdds
    /\ LET k  == Len(addLog) + 1
           sc == Parse(CronExprs[x])
       IN  /\ addLog' = Append(addLog, [expr |-> x, ok |-> sc.ok])
           /\ entries' = EntriesAfterAdd(entries, k, sc)
    /\ UNCHANGED <<sphase, clock, running, inflight, jobWaiter, fired,
                   jobFailed, startAt, stopAt>>
    /\ UNCHANGED <<bvars, cvars, fvars, ovars, lvars, tvars>>

\* Scheduler.Start: cron.Start sets running and starts the run loop, which
\* computes the next activation of every entry and sorts the entries.
Start ==
    /\ sphase = "setup"
    /\ RunGoesOn(addLog)
    /\ sphase' = "started"
    /\ running' = TRUE
    /\ startAt' = clock
    /\ entries' \in SortedByTime(
           [i \in 1..Len(entries) |->
               [entries[i] EXCEPT
                   !.next = ScheduleNext(entries[i].schedule, clock)]])
    /\ UNCHANGED <<clock, addLog, inflight, jobWaiter, fired, jobFailed,
                   stopAt>>
    /\ UNCHANGED <<bvars, cvars, fvars, ovars, lvars, tvars>>

\* A faulty variant: only the entry the timer was set for is run.
DueCountFirst(es, t) ==
    IF Len(es) > 0 /\ es[1].next <= t THEN 1 ELSE 0

\* A faulty variant: no entry is run while an invocation is executing.
DueCountBlocked(es, t) ==
    IF jobWaiter > 0 THEN 0
    ELSE Cardinality({i \in 1..Len(es) : \A j \in 1..i : es[j].next <= t})

\* The loop of the run loop over the sorted entries when the timer fired at
\* t: it stops at the first entry whose next activation is after t; the
\* number of entries it runs.
DueCount(es, t) ==
    Cardinality({i \in 1..Len(es) : \A j \in 1..i : es[j].next <= t})

\* A second passes.  When the run loop is running, every due entry is
\* started (startJob: jobWaiter.Add(1) and a goroutine), its next
\* activation is computed, and the entries are sorted again.
Tick ==
    /\ clock < Horizon
    /\ clock' = clock + 1
    /\ IF running
       THEN LET n   == DueCount(entries, clock')
                due == {entries[i].job : i \in 1..n}
            IN  /\ jobWaiter + n <= MaxInflight
                /\ inflight' = [k \in Jobs |->
                                  IF k \in due THEN inflight[k] + 1
                                  ELSE inflight[k]]
                /\ jobWaiter' = jobWaiter + n
                /\ fired' = fired \cup {<<k, clock'>> : k \in due}
                /\ entries' \in SortedByTime(
                       [i \in 1..Len(entries) |->
                           IF i <= n
                           THEN [entries[i] EXCEPT
                                    !.next = ScheduleNext(
                                        entries[i].schedule, clock')]
                           ELSE entries[i]])
       ELSE UNCHANGED <<inflight, jobWaiter, fired, entries>>
    /\ UNCHANGED <<sphase, running, addLog, jobFailed, startAt, stopAt>>
    /\ UNCHANGED <<bvars, cvars, fvars, ovars, lvars, tvars>>

\* A faulty variant: a job that returned an error is taken off the table.
EntriesAfterJobDrop(es, k, ok) ==
    IF ok THEN es ELSE SelectSeq(es, LAMBDA e : e.job # k)

\* c.entries after an invocation of job k has returned: the wrapper of
\* AddJob discards the error, the entries are untouched.
EntriesAfterJob(es, k, ok) == es

\* An invocation of job k returns, with or without an error; its goroutine
\* ends (jobWaiter.Done).
JobReturn(k) ==
    /\ inflight[k] > 0
    /\ inflight' = [inflight EXCEPT ![k] = @ - 1]
    /\ jobWaiter' = jobWaiter - 1
    /\ \E ok \in BOOLEAN :
         /\ jobFailed' = [jobFailed EXCEPT ![k] = @ \/ ~ok]
         /\ entries' = EntriesAfterJob(entries, k, ok)
    /\ UNCHANGED <<sphase, clock, running, addLog, fired, startAt, stopAt>>
    /\ UNCHANGED <<bvars, cvars, fvars, ovars, lvars, tvars>>

\* A faulty variant: Stop leaves the run loop running.
RunningAfterStopKeep(r) == r

\* cron.Stop: a running run loop receives the stop signal and returns.
RunningAfterStop(r) == FALSE

\* Scheduler.Stop is called (App.Shutdown): cron.Stop stops the run loop
\* and returns a context that is done when jobWaiter is.
StopCall ==
    /\ sphase \in {"setup", "started"}
    /\ sphase' = "stopping"
    /\ stopAt' = clock
    /\ running' = RunningAfterStop(running)
    /\ UNCHANGED <<clock, addLog, entries, inflight, jobWaiter, fired,
                   jobFailed, startAt>>
    /\ UNCHANGED <<bvars, cvars, fvars, ovars, lvars, tvars>>

\* A faulty variant: the context of cron.Stop is never done.
StopMayReturnNever(waiting) == FALSE

\* A faulty variant: Stop returns without waiting for the context.
StopMayReturnAtOnce(waiting) == TRUE

\* Whether <-ctx.Done() of Scheduler.Stop can return: jobWaiter.Wait() has
\* returned, the count is zero.
StopMayReturn(waiting) == waiting = 0

\* Scheduler.Stop returns.
StopReturn ==
    /\ sphase = "stopping"
    /\ StopMayReturn(jobWaiter)
    /\ sphase' = "stopped"
    /\ UNCHANGED <<clock, running, addLog, entries, inflight, jobWaiter,
                   fired, jobFailed, startAt, stopAt>>
    /\ UNCHANGED <<bvars, cvars, fvars, ovars, lvars, tvars>>

NextScheduler ==
    \/ \E x \in ExprIds : AddJob(x)
    \/ Start
    \/ Tick
    \/ \E k \in Jobs : JobReturn(k)
    \/ StopCall
    \/ StopReturn

(***************************************************************************)
(* The round trip of a filename: Backup.generateFilename, the ".gz" of     *)
(* compressBackup, and extractTimestamp.  The repository holds two         *)
(* versions of extractTimestamp:                                           *)
(*   "regexp"      finds (\d{8})_(\d{6}) in the name;                      *)
(*   "TrimSuffix"  trims the known extensions and takes the last two       *)
(*                 parts between underscores.                              *)
(***************************************************************************)
ExtractImpls == {"regexp", "TrimSuffix"}

\* extractTimestamp of the version that trims the extensions.
extractTimestampTrim(name) ==
    LET n1    == TrimSuffix(name, ExtGz)
        n2    == TrimSuffix(n1, ExtSql)
        n3    == TrimSuffix(n2, ExtDump)
        n4    == TrimSuffix(n3, ExtArchive)
        parts == Split(n4, "_")
    IN  IF Len(parts) < 2 THEN [ok |-> FALSE, t |-> 0]
        ELSE TimeParse(parts[Len(parts) - 1] \o <<"_">> \o parts[Len(parts)])

\* The databases a filename is generated for.
DbNames == {NameOrders, NameCrm}

DbTypes == {TypeMysql, TypePostgresql, TypeMongodb, TypeSqlite}

\* The nanoseconds within the second time.Now() can show.
Nanos == {0, 999999999}

FilenameInit ==
    /\ fimpl \in ExtractImpls
    /\ fdb \in [name : DbNames, type : DbTypes]
    /\ fnow \in [sec : Instants, nsec : Nanos]
    /\ fzone \in Zones
    /\ fgz \in BOOLEAN
    /\ fpc = "start"
    /\ fname = <<>>
    /\ fparsed = [ok |-> FALSE, t |-> 0]

\* generateFilename: time.Now().Format prints the local wall clock down to
\* the second.
Generate ==
    /\ fpc = "start"
    /\ fname' = generateFilename(fdb.name, fdb.type, fnow.sec, fzone)
    /\ fpc' = "generated"
    /\ UNCHANGED <<fimpl, fdb, fnow, fzone, fgz, fparsed>>
    /\ UNCHANGED <<bvars, cvars, svars, ovars, lvars, tvars>>

\* The artifact gets its final name: compressBackup appends ".gz".
Store ==
    /\ fpc = "generated"
    /\ fname' = IF fgz THEN fname \o ExtGz ELSE fname
    /\ fpc' = "stored"
    /\ UNCHANGED <<fimpl, fdb, fnow, fzone, fgz, fparsed>>
    /\ UNCHANGED <<bvars, cvars, svars, ovars, lvars, tvars>>

\* extractTimestamp reads the name of the stored artifact.
Extract ==
    /\ fpc = "stored"
    /\ fparsed' = IF fimpl = "regexp"
                  THEN extractTimestamp(fname)
                  ELSE extractTimestampTrim(fname)
    /\ fpc' = "extracted"
    /\ UNCHANGED <<fimpl, fdb, fnow, fzone, fgz, fname>>
    /\ UNCHANGED <<bvars, cvars, svars, ovars, lvars, tvars>>

NextFilename ==
    \/ Generate
    \/ Store
    \/ Extract

(***************************************************************************)
(* Pipeline runs in progress at the same time.  The scheduler starts every *)
(* firing of a job in a goroutine of its own, one firing per job and       *)
(* second; a run names its temp file after its ping has returned, from the *)
(* name and type of its database and the second the clock then shows, and  *)
(* uses the file until Execute returns.                                    *)
(***************************************************************************)
MaxRuns == 2

MaxSeconds == 2

RunIds == 1..MaxRuns

\* The instant the clock shows at first.
OverlapStart == DateUTC(2024, 3, 5, 2, 0, 0)

NoDatabase == [name |-> <<>>, type |-> <<>>]

OverlapInit ==
    /\ oclock = OverlapStart
    /\ ofired = {}
    /\ runs = [r \in RunIds |-> [db |-> NoDatabase, pc |-> "idle", path |-> <<>>]]
    /\ otemp = {}

\* The run loop starts the job of database d: Execute begins with the ping.
Trigger(r, d) ==
    /\ runs[r].pc = "idle"
    /\ \A q \in RunIds : q < r => runs[q].pc # "idle"
    /\ <<d, oclock>> \notin ofired
    /\ ofired' = ofired \cup {<<d, oclock>>}
    /\ runs' = [runs EXCEPT ![r] = [db |-> d, pc |-> "ping", path |-> <<>>]]
    /\ UNCHANGED <<oclock, otemp>>
    /\ UNCHANGED <<bvars, cvars, svars, fvars, lvars, tvars>>

\* uc.db.Ping returns in run r; on success the run generates its filename
\* from time.Now() and joins it to os.TempDir().
PingReturn(r) ==
    /\ runs[r].pc = "ping"
    /\ \E ok \in BOOLEAN :
         LET d == runs[r].db
         IN  runs' = [runs EXCEPT ![r] =
                        IF ok
                        THEN [db   |-> d,
                              pc   |-> "dump",
                              path |-> TempPath(generateFilename(
                                           d.name, d.type, oclock, 0))]
                        ELSE [db |-> d, pc |-> "returned", path |-> <<>>]]
    /\ UNCHANGED <<oclock, ofired, otemp>>
    /\ UNCHANGED <<bvars, cvars, svars, fvars, lvars, tvars>>

\* uc.db.Backup returns in run r, a run without compression: on success the
\* dump is in the temp file, os.Remove(tempPath) is deferred and the run
\* goes on to uploadBackup; on failure Execute returns, and the tool may
\* have left a file behind.
DumpReturn(r) ==
    /\ runs[r].pc = "dump"
    /\ \E ok \in BOOLEAN, written \in BOOLEAN :
         /\ runs' = [runs EXCEPT ![r] =
                        [@ EXCEPT !.pc = IF ok THEN "upload" ELSE "returned"]]
         /\ otemp' = IF ok \/ written
                     THEN otemp \cup {runs[r].path} ELSE otemp
    /\ UNCHANGED <<oclock, ofired>>
    /\ UNCHANGED <<bvars, cvars, svars, fvars, lvars, tvars>>

\* uploadBackup returns in run r, after the local upload and the join of
\* the fan-out, and Execute returns: the deferred os.Remove(tempPath) runs.
RunReturn(r) ==
    /\ runs[r].pc = "upload"
    /\ runs' = [runs EXCEPT ![r] = [@ EXCEPT !.pc = "returned"]]
    /\ otemp' = otemp \ {runs[r].path}
    /\ UNCHANGED <<oclock, ofired>>
    /\ UNCHANGED <<bvars, cvars, svars, fvars, lvars, tvars>>

\* A second passes.
SecondPasses ==
    /\ oclock < OverlapStart + MaxSeconds
    /\ oclock' = oclock + 1
    /\ UNCHANGED <<ofired, runs, otemp>>
    /\ UNCHANGED <<bvars, cvars, svars, fvars, lvars, tvars>>

NextOverlap ==
    \/ \E r \in RunIds, d \in Databases : Trigger(r, d)
    \/ \E r \in RunIds : PingReturn(r)
    \/ \E r \in RunIds : DumpReturn(r)
    \/ \E r \in RunIds : RunReturn(r)
    \/ SecondPasses

(***************************************************************************)
(* LocalStorage.GetOldFiles on a base directory that was filled as the     *)
(* test fills it (os.WriteFile and os.Chtimes), with directories and       *)
(* symbolic links besides files.                                           *)
(***************************************************************************)
MaxEntries == 2

\* The names an entry can have, in the order of os.ReadDir (by filename).
EntryNames == <<"new.txt", "old.txt", "sub">>

EntryIds == 1..Len(EntryNames)

\* What os.ReadDir can find under a name.
EntryKinds == {"file", "dir", "symlink"}

\* The cutoff of the call and the modification times around it.
LocalCutoff == DateUTC(2024, 3, 3, 0, 0, 0)

EntryTimes == {LocalCutoff - 1, LocalCutoff, LocalCutoff + 1}

NoEntry == [kind |-> "none", mtime |-> 0]

\* The names present in a directory.
Present(d) == {e \in EntryIds : d[e] # NoEntry}

NoResult == [err |-> FALSE, names |-> <<>>]

LocalInit ==
    /\ ldir = [e \in EntryIds |-> NoEntry]
    /\ lcutoff = LocalCutoff
    /\ lpc = "idle"
    /\ lresult = NoResult
    /\ lbefore = [e \in EntryIds |-> NoEntry]

\* An entry is created in the base directory and its times are set.
CreateEntry(e, k, m) ==
    /\ lpc = "idle"
    /\ ldir[e] = NoEntry
    /\ Cardinality(Present(ldir)) < MaxEntries
    /\ ldir' = [ldir EXCEPT ![e] = [kind |-> k, mtime |-> m]]
    /\ UNCHANGED <<lcutoff, lpc, lresult, lbefore>>
    /\ UNCHANGED <<bvars, cvars, svars, fvars, ovars, tvars>>

\* entry.IsDir()
IsDir(entry) == entry.kind = "dir"

\* A faulty variant: a file modified at the cutoff counts as old.
ModTimeBeforeOrAt(m, c) == m <= c

\* info.ModTime().Before(cutoffTime)
ModTimeBefore(m, c) == m < c

\* LocalStorage.GetOldFiles(ctx, cutoffTime) on the directory d; readOk tells
\* whether os.ReadDir succeeded, infoFail the entries whose Info() fails.
LocalGetOldFiles(d, c, readOk, infoFail) ==
    IF ~readOk THEN [err |-> TRUE, names |-> <<>>]
    ELSE IF \E e \in Present(d) : ~IsDir(d[e]) /\ e \in infoFail
    THEN [err |-> TRUE, names |-> <<>>]
    ELSE LET old == SelectSeq([e \in EntryIds |-> e],
                              LAMBDA e : /\ e \in Present(d)
                                         /\ ~IsDir(d[e])
                                         /\ ModTimeBefore(d[e].mtime, c))
         IN  [err |-> FALSE, names |-> [i \in 1..Len(old) |-> EntryNames[old[i]]]]

\* The call of GetOldFiles and its return.
GetOldFilesCall ==
    /\ lpc = "idle"
    /\ lpc' = "returned"
    /\ lbefore' = ldir
    /\ \E readOk \in BOOLEAN, infoFail \in SUBSET Present(ldir) :
         lresult' = LocalGetOldFiles(ldir, lcutoff, readOk, infoFail)
    /\ UNCHANGED <<ldir, lcutoff>>
    /\ UNCHANGED <<bvars, cvars, svars, fvars, ovars, tvars>>

NextLocal ==
    \/ \E e \in EntryIds, k \in EntryKinds, m \in EntryTimes : CreateEntry(e, k, m)
    \/ GetOldFilesCall

(***************************************************************************)
(* One storage target that a pipeline run uploads to while cleanupTarget   *)
(* works on it.  The run names its artifact from the clock, and its        *)
(* Storage.Upload stores the file; cleanupTarget is called with a cutoff,  *)
(* finds its deletion set by GetOldFiles or, when that fails, by List and  *)
(* the timestamps of the names, and deletes the files of the set.  A       *)
(* second call of cleanupTarget gets the cutoff of the first.              *)
(***************************************************************************)
\* The instants the clock shows, in order.
TargetInstants ==
    << DateUTC(2024, 3, 5, 2, 0, 0),
       DateUTC(2024, 3, 5, 3, 0, 0),
       DateUTC(2024, 3, 5, 19, 0, 0) >>

\* The offsets east of UTC of the zones the process can run in.
TargetZones == {-8 * 3600, 0}

\* The retention days of the configuration.
TargetRetentions == {1, RetentionDays}

\* The files the storage holds at first: an old artifact, and an artifact
\* named two seconds before 02:00:00 of the day before whose upload ended
\* three seconds after it.
TargetFiles ==
    { [name  |-> MasterFiles[1].name, mtime |-> MasterFiles[1].mtime],
      [name  |-> generateFilename(NameOrders, TypeMysql,
                                  DateUTC(2024, 3, 4, 1, 59, 58), 0),
       mtime |-> DateUTC(2024, 3, 4, 2, 0, 3)] }

CleanupCalls == 1..2

TargetNow == TargetInstants[tclock]

TargetInit ==
    /\ tclock = 1
    /\ tzone \in TargetZones
    /\ tdays \in TargetRetentions
    /\ trun = "idle"
    /\ tname = <<>>
    /\ tstore = TargetFiles
    /\ tops = {}
    /\ tpass = 0
    /\ tpc = "idle"
    /\ tcutoff = 0
    /\ ttier = [p \in CleanupCalls |-> "none"]
    /\ tfiles = [p \in CleanupCalls |-> {}]
    /\ tdel = [p \in CleanupCalls |-> {}]
    /\ tfail = [p \in CleanupCalls |-> {}]
    /\ tsince = FALSE
    /\ tduring = FALSE

\* Time passes.
TargetTick ==
    /\ tclock < Len(TargetInstants)
    /\ tclock' = tclock + 1
    /\ UNCHANGED <<tzone, tdays, trun, tname, tstore, tops, tpass, tpc,
                   tcutoff, ttier, tfiles, tdel, tfail, tsince, tduring>>
    /\ UNCHANGED <<bvars, cvars, svars, fvars, ovars, lvars>>

\* Execute generates the filename of the run from time.Now().
NameArtifact ==
    /\ trun = "idle"
    /\ trun' = "named"
    /\ tname' = generateFilename(NameOrders, TypeMysql, TargetNow, tzone)
    /\ UNCHANGED <<tclock, tzone, tdays, tstore, tops, tpass, tpc,
                   tcutoff, ttier, tfiles, tdel, tfail, tsince, tduring>>
    /\ UNCHANGED <<bvars, cvars, svars, fvars, ovars, lvars>>

\* Whether cleanupTarget is at work on the target.
CleanupAtWork == tpc \in {"query", "list", "deleting"}

\* The files of a storage after an Upload has stored a file under a name
\* (os.Create of LocalStorage.Upload, PutObject): the file of that name is
\* new, every other file is as before.
StoreAfterUpload(S, name, now) ==
    {g \in S : g.name # name} \cup {[name |-> name, mtime |-> now]}

\* The goroutine of the target calls t.Storage.Upload.  A storage that
\* writes in place (LocalStorage.Upload creates the destination and then
\* copies) shows the file from the start of the call.
TargetUploadCall ==
    /\ trun = "named"
    /\ trun' = "uploading"
    /\ tops' = tops \cup {<<"pipeline", "Upload">>}
    /\ tduring' = (tduring \/ CleanupAtWork)
    /\ \E inPlace \in BOOLEAN :
         tstore' = IF inPlace
                   THEN StoreAfterUpload(tstore, tname, TargetNow)
                   ELSE tstore
    /\ tsince' = (tsince \/ (tpass >= 1 /\ tstore' # tstore))
    /\ UNCHANGED <<tclock, tzone, tdays, tname, tpass, tpc, tcutoff, ttier,
                   tfiles, tdel, tfail>>
    /\ UNCHANGED <<bvars, cvars, svars, fvars, ovars, lvars>>

\* t.Storage.Upload returns; after a successful Upload the storage holds
\* the artifact.
TargetUploadReturn ==
    /\ trun = "uploading"
    /\ trun' = "done"
    /\ \E ok \in BOOLEAN :
         tstore' = IF ok
                   THEN StoreAfterUpload(tstore, tname, TargetNow)
                   ELSE tstore
    /\ tsince' = (tsince \/ (tpass >= 1 /\ tstore' # tstore))
    /\ UNCHANGED <<tclock, tzone, tdays, tname, tops, tpass, tpc, tcutoff,
                   ttier, tfiles, tdel, tfail, tduring>>
    /\ UNCHANGED <<bvars, cvars, svars, fvars, ovars, lvars>>

\* Cleanup.Execute computes the cutoff and the goroutine of the target
\* calls cleanupTarget.
TargetCleanupStart ==
    /\ tpass = 0
    /\ tpass' = 1
    /\ tpc' = "query"
    /\ tcutoff' = AddDays(TargetNow, -tdays)
    /\ tduring' = (tduring \/ trun = "uploading")
    /\ UNCHANGED <<tclock, tzone, tdays, trun, tname, tstore, tops, ttier,
                   tfiles, tdel, tfail, tsince>>
    /\ UNCHANGED <<bvars, cvars, svars, fvars, ovars, lvars>>

\* cleanupTarget is called again with the cutoff of the first call.
TargetCleanupAgain ==
    /\ tpass = 1
    /\ tpc = "done"
    /\ tpass' = 2
    /\ tpc' = "query"
    /\ tduring' = (tduring \/ trun = "uploading")
    /\ UNCHANGED <<tclock, tzone, tdays, trun, tname, tstore, tops, tcutoff,
                   ttier, tfiles, tdel, tfail, tsince>>
    /\ UNCHANGED <<bvars, cvars, svars, fvars, ovars, lvars>>

\* Storage.GetOldFiles(cutoff): the files the storage dates before the
\* cutoff.
TargetOldFiles(S, c) == {f \in S : f.mtime < c}

\* fallbackListFiles: the listed files whose name holds a timestamp that
\* parses and is before the cutoff.
TargetFallbackFiles(S, c) ==
    {f \in S : /\ extractTimestamp(f.name).ok
               /\ extractTimestamp(f.name).t < c}

\* The position of cleanupTarget once it has its deletion set.
AfterTargetDiscovery(S) == IF S = {} THEN "done" ELSE "deleting"

\* cleanupTarget calls target.Storage.GetOldFiles(ctx, cutoff); when the
\* call fails it goes on to fallbackListFiles.
TargetQuery ==
    /\ tpc = "query"
    /\ tops' = tops \cup {<<"cleanup", "GetOldFiles">>}
    /\ tduring' = (tduring \/ trun = "uploading")
    /\ \E ok \in BOOLEAN :
         IF ok
         THEN /\ tfiles' = [tfiles EXCEPT ![tpass] =
                               TargetOldFiles(tstore, tcutoff)]
              /\ ttier' = [ttier EXCEPT ![tpass] = "tier1"]
              /\ tpc' = AfterTargetDiscovery(TargetOldFiles(tstore, tcutoff))
         ELSE /\ tpc' = "list"
              /\ UNCHANGED <<tfiles, ttier>>
    /\ UNCHANGED <<tclock, tzone, tdays, trun, tname, tstore, tpass,
                   tcutoff, tdel, tfail, tsince>>
    /\ UNCHANGED <<bvars, cvars, svars, fvars, ovars, lvars>>

\* fallbackListFiles calls target.Storage.List(ctx); when the call fails
\* cleanupTarget returns the error.
TargetList ==
    /\ tpc = "list"
    /\ tops' = tops \cup {<<"cleanup", "List">>}
    /\ tduring' = (tduring \/ trun = "uploading")
    /\ \E ok \in BOOLEAN :
         IF ok
         THEN /\ tfiles' = [tfiles EXCEPT ![tpass] =
                               TargetFallbackFiles(tstore, tcutoff)]
              /\ ttier' = [ttier EXCEPT ![tpass] = "tier2"]
              /\ tpc' = AfterTargetDiscovery(
                            TargetFallbackFiles(tstore, tcutoff))
         ELSE /\ ttier' = [ttier EXCEPT ![tpass] = "failed"]
              /\ tpc' = "done"
              /\ UNCHANGED tfiles
    /\ UNCHANGED <<tclock, tzone, tdays, trun, tname, tstore, tpass,
                   tcutoff, tdel, tfail, tsince>>
    /\ UNCHANGED <<bvars, cvars, svars, fvars, ovars, lvars>>

\* A faulty variant: Delete returns nil and leaves the file in the storage.
StoreAfterDeleteKeep(S, name, ok) == S

\* A faulty variant: a Delete empties the storage.
StoreAfterDeleteAll(S, name, ok) == IF ok THEN {} ELSE S

\* The files of a storage after Storage.Delete of a name: a successful
\* Delete removes the file of that name and no other.
StoreAfterDelete(S, name, ok) ==
    IF ok THEN {g \in S : g.name # name} ELSE S

\* One iteration of the loop of cleanupTarget:
\* target.Storage.Delete(ctx, filename) on a file of the deletion set.
TargetDelete(f) ==
    /\ tpc = "deleting"
    /\ f \in tfiles[tpass] \ tdel[tpass]
    /\ tops' = tops \cup {<<"cleanup", "Delete">>}
    /\ tduring' = (tduring \/ trun = "uploading")
    /\ tdel' = [tdel EXCEPT ![tpass] = @ \cup {f}]
    /\ \E ok \in BOOLEAN :
         /\ tstore' = StoreAfterDelete(tstore, f.name, ok)
         /\ tfail' = [tfail EXCEPT ![tpass] = IF ok THEN @ ELSE @ \cup {f}]
    /\ tpc' = IF tdel'[tpass] = tfiles[tpass] THEN "done" ELSE "deleting"
    /\ UNCHANGED <<tclock, tzone, tdays, trun, tname, tpass, tcutoff,
                   ttier, tfiles, tsince>>
    /\ UNCHANGED <<bvars, cvars, svars, fvars, ovars, lvars>>

NextTarget ==
    \/ TargetTick
    \/ NameArtifact
    \/ TargetUploadCall
    \/ TargetUploadReturn
    \/ TargetCleanupStart
    \/ TargetCleanupAgain
    \/ TargetQuery
    \/ TargetList
    \/ \E f \in UNION {tfiles[p] : p \in CleanupCalls} : TargetDelete(f)

(***************************************************************************)
(* The specifications.  SpecBackup is one run of the pipeline, SpecCleanup *)
(* one run of the cleaner; each leaves the state of the other alone.       *)
(***************************************************************************)
\* The pipeline before any run is triggered.
BackupIdle ==
    /\ db = [name |-> NameOrders, type |-> TypeMysql]
    /\ compress = FALSE
    /\ zone = 0
    /\ bpc = "idle"
    /\ bresult = "none"
    /\ filename = <<>>
    /\ finalName = <<>>
    /\ tempDir = {}
    /\ defers = <<>>
    /\ calls = [op \in {"ping", "dump", "compress"} |-> 0]
    /\ localCalls = <<>>
    /\ upState = [t \in Targets |-> "idle"]
    /\ upOutcome = [t \in Targets |-> "none"]
    /\ upCalls = [t \in Targets |-> <<>>]
    /\ errLog = {}
    /\ okLog = {}
    /\ toolOutput = NoOutput
    /\ bdetail = NoOutput
    /\ finalPath = <<>>
    /\ pathCalls = {}
    /\ cancelled = FALSE
    /\ cancelStage = "none"
    /\ cancelUp = {}
    /\ localOutcome = "none"

\* No pipeline run in progress.
OverlapIdle ==
    /\ oclock = 0
    /\ ofired = {}
    /\ runs = [r \in RunIds |-> [db |-> NoDatabase, pc |-> "idle", path |-> <<>>]]
    /\ otemp = {}

\* The local storage before a call.
LocalIdle ==
    /\ ldir = [e \in EntryIds |-> NoEntry]
    /\ lcutoff = 0
    /\ lpc = "off"
    /\ lresult = NoResult
    /\ lbefore = [e \in EntryIds |-> NoEntry]

\* The cleaner before it is constructed.
CleanupIdle ==
    /\ impl = "Cleanup3"
    /\ ucTargets = {}
    /\ cutoff = 0
    /\ cpc = "unused"
    /\ cresult = "none"
    /\ store0 = [t \in Targets |-> {}]
    /\ store = store0
    /\ unit = [t \in Targets |-> "idle"]
    /\ tier = [t \in Targets |-> "none"]
    /\ listed = [t \in Targets |-> <<>>]
    /\ files = [t \in Targets |-> <<>>]
    /\ idx = [t \in Targets |-> 1]
    /\ delCalls = [t \in Targets |-> <<>>]
    /\ deleted = [t \in Targets |-> 0]
    /\ discCalls = [t \in Targets |-> {}]
    /\ failLog = {}
    /\ warnLog = [t \in Targets |-> {}]
    /\ localStore = {}
    /\ localDelCalls = <<>>

\* The scheduler before it is constructed.
SchedulerIdle ==
    /\ sphase = "unused"
    /\ clock = ClockStart
    /\ running = FALSE
    /\ addLog = <<>>
    /\ entries = <<>>
    /\ inflight = [k \in Jobs |-> 0]
    /\ jobWaiter = 0
    /\ fired = {}
    /\ jobFailed = [k \in Jobs |-> FALSE]
    /\ startAt = NoInstant
    /\ stopAt = NoInstant

\* No filename is on its round trip.
FilenameIdle ==
    /\ fimpl = "regexp"
    /\ fdb = [name |-> NameOrders, type |-> TypeMysql]
    /\ fnow = [sec |-> 0, nsec |-> 0]
    /\ fzone = 0
    /\ fgz = FALSE
    /\ fpc = "unused"
    /\ fname = <<>>
    /\ fparsed = [ok |-> FALSE, t |-> 0]

\* The target before any run.
TargetIdle ==
    /\ tclock = 0
    /\ tzone = 0
    /\ tdays = 0
    /\ trun = "off"
    /\ tname = <<>>
    /\ tstore = {}
    /\ tops = {}
    /\ tpass = 0
    /\ tpc = "off"
    /\ tcutoff = 0
    /\ ttier = [p \in CleanupCalls |-> "none"]
    /\ tfiles = [p \in CleanupCalls |-> {}]
    /\ tdel = [p \in CleanupCalls |-> {}]
    /\ tfail = [p \in CleanupCalls |-> {}]
    /\ tsince = FALSE
    /\ tduring = FALSE

OthersIdle == OverlapIdle /\ LocalIdle /\ TargetIdle

InitB ==
    InitBackup /\ CleanupIdle /\ SchedulerIdle /\ FilenameIdle /\ OthersIdle

NextB == NextBackupRun

SpecBackup == InitB /\ [][NextB]_vars

InitC ==
    InitCleanup /\ BackupIdle /\ SchedulerIdle /\ FilenameIdle /\ OthersIdle

NextC == NextCleanupRun

SpecCleanup == InitC /\ [][NextC]_vars

\* The Go scheduler runs every goroutine that can run, and the calls to
\* the storages return.
SpecCleanupFair == SpecCleanup /\ WF_vars(NextC)

InitS ==
    SchedulerInit /\ BackupIdle /\ CleanupIdle /\ FilenameIdle /\ OthersIdle

NextS == NextScheduler

SpecScheduler == InitS /\ [][NextS]_vars

\* The registrations of the runs in which Stop is followed to its return:
\* a schedule that fires every second, one that fires every other second,
\* and one that AddJob refuses.
StopExprIds ==
    {x \in ExprIds :
        CronExprs[x] \in {ExprEverySecond, ExprEvery2s, ExprInvalid}}

NextStop ==
    \/ \E x \in StopExprIds : AddJob(x)
    \/ Start
    \/ Tick
    \/ \E k \in Jobs : JobReturn(k)
    \/ StopCall
    \/ StopReturn

\* Every invocation that is in flight returns, and Stop returns once its
\* context is done.
SpecSchedulerFair ==
    /\ InitS
    /\ [][NextStop]_vars
    /\ WF_vars(StopReturn)
    /\ \A k \in Jobs : WF_vars(JobReturn(k))

InitF ==
    FilenameInit /\ BackupIdle /\ CleanupIdle /\ SchedulerIdle /\ OthersIdle

NextF == NextFilename

SpecFilename == InitF /\ [][NextF]_vars

InitO ==
    /\ OverlapInit
    /\ BackupIdle
    /\ CleanupIdle
    /\ SchedulerIdle
    /\ FilenameIdle
    /\ LocalIdle
    /\ TargetIdle

NextO == NextOverlap

SpecOverlap == InitO /\ [][NextO]_vars

InitL ==
    /\ LocalInit
    /\ BackupIdle
    /\ CleanupIdle
    /\ SchedulerIdle
    /\ FilenameIdle
    /\ OverlapIdle
    /\ TargetIdle

NextL == NextLocal

SpecLocal == InitL /\ [][NextL]_vars

InitT ==
    /\ TargetInit
    /\ BackupIdle
    /\ CleanupIdle
    /\ SchedulerIdle
    /\ FilenameIdle
    /\ OverlapIdle
    /\ LocalIdle

NextT == NextTarget

SpecTarget == InitT /\ [][NextT]_vars

(***************************************************************************)
(* Properties of the backup pipeline, checked under SpecBackup.            *)
(***************************************************************************)
FailedTargets == {t \in Targets : upOutcome[t] = "err"}

FanoutRan == \E t \in Targets : upState[t] # "idle"

\* C1: when ping, dump and compression succeeded and a strict non-empty
\* subset F of the targets failed its Upload, Execute returns success and
\* the targets logged as failed are exactly F.
C1_PartialFailureIsSuccess ==
    (bpc = "returned" /\ FailedTargets # {} /\ FailedTargets # Targets)
        => (bresult = "nil" /\ errLog = FailedTargets)

C1_Witness ==
    /\ bpc = "returned"
    /\ FailedTargets # {}
    /\ FailedTargets # Targets
    /\ bresult = "nil"
    /\ errLog = FailedTargets
    /\ okLog = Targets \ FailedTargets

\* C2: in the fan-out every target receives exactly one Upload call for
\* the final artifact, whatever the outcome of the other uploads: never
\* more than one, and exactly one once the fan-out has joined.
C2_OneUploadPerTarget ==
    /\ \A t \in Targets :
         /\ Len(upCalls[t]) <= 1
         /\ upState[t] \in {"running", "done"} =>
              (FanoutRan /\ upCalls[t] = <<finalName>>)
    /\ (bpc = "returned" /\ FanoutRan) =>
         \A t \in Targets : upCalls[t] = <<finalName>>

C2_Witness ==
    /\ bpc = "returned"
    /\ \E t \in Targets : upOutcome[t] = "err"
    /\ \E t \in Targets : upOutcome[t] = "ok"
    /\ \A t \in Targets : upCalls[t] = <<finalName>>

\* C3: Execute returns failure if and only if the connectivity check, the
\* dump (with the stat of its result) or the compression failed; no
\* failure of an upload, the upload to local storage included, makes the
\* run fail.
C3_OnlyPreUploadFailuresFail ==
    bpc = "returned" =>
        bresult \in {"nil", "ping", "backup", "stat", "compression"}

\* C4: after a run has returned, on every exit path, neither the raw dump
\* nor the compressed file of the run is in the temp directory, a partial
\* file of a failed dump or a failed compression included.
C4_NoTempFileAfterRun ==
    bpc = "returned" =>
        /\ filename \notin tempDir
        /\ (filename \o ExtGz) \notin tempDir

(***************************************************************************)
(* Properties of the retention cleaner, checked under SpecCleanup.         *)
(***************************************************************************)
\* The timestamp embedded in a name of the format
\* <dbname>_<dbtype>_<YYYYMMDD>_<HHMMSS>.<ext>[.gz]: the fifteen characters
\* before the extension.
LastDot(s) ==
    IF \E i \in 1..Len(s) : s[i] = "."
    THEN CHOOSE i \in 1..Len(s) :
             s[i] = "." /\ \A j \in (i + 1)..Len(s) : s[j] # "."
    ELSE Len(s) + 1

EmbeddedTimestamp(name) ==
    LET raw  == TrimSuffix(name, ExtGz)
        base == SubSeq(raw, 1, LastDot(raw) - 1)
    IN  IF Len(base) >= 15
        THEN TimeParse(SubSeq(base, Len(base) - 14, Len(base)))
        ELSE [ok |-> FALSE, t |-> 0]

Embedded ==
    LET e(f) == EmbeddedTimestamp(FileName(f))
    IN  <<e(1), e(2), e(3), e(4), e(5), e(6)>>

\* The files of a listing that are expired by their embedded timestamp.
ExpiredByName(list, c) ==
    { f \in Range(list) : Embedded[f].ok /\ Embedded[f].t < c }

\* C5: under Tier-2 cleanup of a target, Delete is called on exactly the
\* listed files whose embedded timestamp parses and is strictly before the
\* cutoff; a file at or after the cutoff and a file without a parseable
\* timestamp are never deleted.
C5_Tier2DeletesExactlyExpired ==
    \A t \in Targets :
        tier[t] = "tier2" =>
            /\ Range(delCalls[t]) \subseteq ExpiredByName(listed[t], cutoff)
            /\ unit[t] = "done" =>
                 Range(delCalls[t]) = ExpiredByName(listed[t], cutoff)
            /\ store0[t] \ store[t] \subseteq ExpiredByName(listed[t], cutoff)

C5_Witness ==
    \E t \in Targets :
        /\ tier[t] = "tier2"
        /\ unit[t] = "done"
        /\ delCalls[t] # <<>>
        /\ Range(listed[t]) \ Range(delCalls[t]) # {}
        /\ Range(delCalls[t]) = ExpiredByName(listed[t], cutoff)

\* C6: under Tier-1 cleanup of a target, Delete is called on exactly the
\* files the old-files query returned: on none outside that set, and on
\* every one of them once the target's cleanup is done.
C6_Tier1DeletesExactlyQueried ==
    \A t \in Targets :
        tier[t] = "tier1" =>
            /\ Range(delCalls[t]) \subseteq Range(listed[t])
            /\ unit[t] = "done" => Range(delCalls[t]) = Range(listed[t])

C6_Witness ==
    \E t \in Targets :
        /\ tier[t] = "tier1"
        /\ unit[t] = "done"
        /\ delCalls[t] # <<>>
        /\ store0[t] \ Range(delCalls[t]) # {}
        /\ Range(delCalls[t]) = Range(listed[t])

\* C7: a cleanup run performs expiry discovery on every upload target
\* handed to NewCleanup: for each of them GetOldFiles or List is invoked
\* during the run.
C7_EveryTargetDiscovered ==
    cpc = "returned" => \A t \in Targets : discCalls[t] # {}

\* C8: a cleanup run always completes and returns no error, whatever
\* listings and deletions fail, and it returns only after the goroutine of
\* every target has finished.
C8_CleanupAlwaysCompletes ==
    /\ [](cpc = "returned" =>
            /\ cresult = "nil"
            /\ \A t \in Targets : unit[t] \in {"idle", "done"})
    /\ <>(cpc = "returned")

C8_Witness ==
    /\ cpc = "returned"
    /\ cresult = "nil"
    /\ failLog # {}
    /\ \E t \in Targets : deleted[t] < Len(delCalls[t])
    /\ \A t \in Targets : unit[t] = "done"

\* C9: within one target's cleanup a failed Delete does not stop the loop:
\* every file of the deletion list has Delete attempted exactly once, in
\* the order of the list, whatever the earlier deletions returned.
C9_DeleteLoopCoversList ==
    \A t \in Targets :
        /\ delCalls[t] = SubSeq(files[t], 1, Len(delCalls[t]))
        /\ Len(delCalls[t]) <= Len(files[t])
        /\ unit[t] = "done" => delCalls[t] = files[t]

C9_Witness ==
    \E t \in Targets :
        /\ unit[t] = "done"
        /\ Len(files[t]) >= 2
        /\ delCalls[t] = files[t]
        /\ files[t][1] \in store[t]
        /\ files[t][2] \notin store[t]

\* The deletion list of a target, from the files of its storage alone.
OwnDeletionList(t) ==
    IF tier[t] = "tier1"
    THEN GetOldFiles(store0[t], cutoff)
    ELSE fallbackListFiles(Listing(store0[t]), cutoff)

\* C10: when discovery fails for one target, no file of that target is
\* deleted, and every other target is cleaned exactly as its own storage
\* determines.
C10_ListingFailureIsolated ==
    \A t \in Targets :
        tier[t] = "failed" =>
            /\ delCalls[t] = <<>>
            /\ store[t] = store0[t]
            /\ \A u \in Targets \ {t} :
                 /\ unit[u] # "done" => cpc # "returned"
                 /\ tier[u] \in {"tier1", "tier2"} =>
                      /\ files[u] = OwnDeletionList(u)
                      /\ unit[u] = "done" => delCalls[u] = files[u]

C10_Witness ==
    \E t, u \in Targets :
        /\ cpc = "returned"
        /\ tier[t] = "failed"
        /\ tier[u] \in {"tier1", "tier2"}
        /\ delCalls[u] # <<>>
        /\ delCalls[u] = OwnDeletionList(u)
        /\ delCalls[t] = <<>>

(***************************************************************************)
(* Properties of the scheduler, checked under SpecScheduler.               *)
(***************************************************************************)
\* What the accepted expressions of the model mean, read off their text:
\* whether a job with expression x, on a scheduler started at instant s,
\* is due at instant u.
ShouldFire(x, u, s) ==
    CASE CronExprs[x] = ExprEverySecond -> TRUE
      [] CronExprs[x] = ExprCleanup     -> u % SecondsPerDay = 3 * 3600
      [] CronExprs[x] = ExprEvenSeconds -> u % 2 = 0
      [] CronExprs[x] = ExprEvery2s     -> u > s /\ (u - s) % 2 = 0
      [] OTHER                          -> FALSE

\* The jobs of the entries of the scheduler.
Registered == {entries[i].job : i \in 1..Len(entries)}

\* The expression job k was added with.
ExprOf(k) == addLog[k].expr

\* C11: Scheduler.Stop does not return while a job invocation that was
\* fired before Stop was called is still executing: once Stop has
\* returned, no invocation is in flight.
C11_StopWaitsForInflight ==
    sphase = "stopped" => \A k \in Jobs : inflight[k] = 0

\* Stop has been called while an invocation fired earlier is still
\* executing, and has not returned.
C11_Witness ==
    /\ sphase = "stopping"
    /\ \E k \in Jobs :
         /\ inflight[k] > 0
         /\ \E u \in ClockStart..stopAt : <<k, u>> \in fired

\* The expressions of the model that are six syntactically valid fields.
SixFieldValid ==
    {x \in ExprIds :
        CronExprs[x] \in {ExprEverySecond, ExprCleanup, ExprEvenSeconds}}

\* C12: AddJob succeeds exactly for the syntactically valid 6-field
\* expressions and then adds exactly one registration; for every other
\* expression it returns an error, the registrations are unchanged and the
\* rejected job is never invoked.
C12_AddJobAcceptsExactlySixFields ==
    /\ \A k \in 1..Len(addLog) :
         /\ addLog[k].ok <=> ExprOf(k) \in SixFieldValid
         /\ addLog[k].ok => Cardinality({i \in 1..Len(entries) :
                                            entries[i].job = k}) = 1
         /\ ~addLog[k].ok => /\ k \notin Registered
                             /\ \A u \in ClockStart..Horizon :
                                  <<k, u>> \notin fired
    /\ Len(entries) = Cardinality({k \in 1..Len(addLog) : addLog[k].ok})

\* The next activation of every entry of a running scheduler is its next
\* due instant after the clock.
NextActivationsDue ==
    \A i \in 1..Len(entries) :
        LET x == ExprOf(entries[i].job)
            n == entries[i].next
        IN  /\ n > clock
            /\ n <= Horizon => ShouldFire(x, n, startAt)
            /\ \A u \in (clock + 1)..Horizon :
                 u < n => ~ShouldFire(x, u, startAt)

\* C13: a job invocation that returns an error changes nothing in the
\* scheduler: once some invocation has failed, every accepted job, the
\* failing one included, is still registered and its next activation is
\* still its next matching tick.
C13_FailureChangesNothing ==
    (\E k \in Jobs : jobFailed[k]) =>
        /\ Registered = {k \in 1..Len(addLog) : addLog[k].ok}
        /\ Len(entries) = Cardinality(Registered)
        /\ running => NextActivationsDue

\* An invocation of a job has failed, and that job and another one are
\* registered on the running scheduler with an activation still to come.
C13_Witness ==
    /\ running
    /\ \E i, j \in 1..Len(entries) :
         /\ i # j
         /\ jobFailed[entries[i].job]
         /\ entries[i].next <= Horizon
         /\ entries[j].next <= Horizon

\* C14: after Scheduler.Stop has returned no job invocation begins.
C14_NoInvocationAfterStop ==
    [][sphase = "stopped" => fired' = fired /\ inflight' = inflight]_vars

\* Stop has returned on a started scheduler, and since it was called a
\* tick has passed at which a registered job was due and was not run.
C14_Witness ==
    /\ sphase = "stopped"
    /\ startAt # NoInstant
    /\ \E i \in 1..Len(entries) : \E u \in (stopAt + 1)..clock :
         /\ ShouldFire(ExprOf(entries[i].job), u, startAt)
         /\ <<entries[i].job, u>> \notin fired

\* The last instant the run loop has served: the clock, or the instant
\* Stop was called at.
ServedUntil == IF stopAt = NoInstant THEN clock ELSE stopAt

\* C15: between Start and Stop every tick that matches the expression of a
\* registered job causes an invocation of that job; no job is invoked
\* before Start has been called.
C15_EveryMatchingTickFires ==
    /\ startAt = NoInstant => fired = {}
    /\ \A p \in fired : p[2] > startAt
    /\ startAt # NoInstant =>
         \A k \in Registered : \A u \in (startAt + 1)..ServedUntil :
             ShouldFire(ExprOf(k), u, startAt) => <<k, u>> \in fired

\* A job was run at a tick although its previous invocation was still
\* executing, on a scheduler that holds a second job.
C15_Witness ==
    \E k, j \in Registered :
        /\ k # j
        /\ <<k, clock>> \in fired
        /\ <<k, clock - 1>> \in fired
        /\ inflight[k] = 2

(***************************************************************************)
(* Failures of the steps before the uploads, checked under SpecBackup.     *)
(***************************************************************************)
\* No Upload was invoked, on the local storage or on a target.
NoUploadInvoked ==
    /\ localCalls = <<>>
    /\ \A t \in Targets : upCalls[t] = <<>>

\* C16: when the database ping fails the run ends as failed without
\* invoking the dump, the compressor or any Upload, and without creating a
\* temp file.
C16_PingFailureStopsRun ==
    bresult = "ping" =>
        /\ bpc = "returned"
        /\ calls["dump"] = 0
        /\ calls["compress"] = 0
        /\ NoUploadInvoked
        /\ tempDir = {}

\* A run whose ping failed has returned.
C16_Witness ==
    /\ bpc = "returned"
    /\ bresult = "ping"
    /\ calls["ping"] = 1

\* C17: when the dump fails the run ends as failed with an error that
\* carries the diagnostic output of the dump, and neither the compressor
\* nor any Upload is invoked.
C17_DumpFailureCarriesOutput ==
    bresult = "backup" =>
        /\ bpc = "returned"
        /\ bdetail = toolOutput
        /\ calls["compress"] = 0
        /\ NoUploadInvoked

\* A run whose dump failed after the tool printed a diagnostic has
\* returned.
C17_Witness ==
    /\ bpc = "returned"
    /\ bresult = "backup"
    /\ calls["dump"] = 1
    /\ toolOutput # NoOutput

\* C18: when compression is enabled and Compress fails, the run ends as
\* failed before any Upload is invoked, on the local storage or a target.
C18_CompressFailureStopsRun ==
    bresult = "compression" =>
        /\ bpc = "returned"
        /\ compress
        /\ NoUploadInvoked

\* A run with compression enabled whose Compress failed has returned.
C18_Witness ==
    /\ bpc = "returned"
    /\ bresult = "compression"
    /\ calls["compress"] = 1

(***************************************************************************)
(* Properties of the filenames, checked under SpecFilename.                *)
(***************************************************************************)
\* C19: extracting the timestamp from a generated filename returns the
\* instant of the generation truncated to the second, with or without
\* ".gz" and for every extension.
C19_RoundTrip ==
    fpc = "extracted" => fparsed.ok /\ fparsed.t = fnow.sec

\* The extension the format gives each database type.
ExpectedExt(ty) ==
    CASE ty = TypeMysql      -> ExtSql
      [] ty = TypePostgresql -> ExtDump
      [] ty = TypeMongodb    -> ExtArchive
      [] OTHER               -> ExtBackup

\* Whether stamp reads YYYYMMDD_HHMMSS and names the wall-clock second w.
ReadsAs(stamp, w) ==
    /\ Len(stamp) = 15
    /\ AllDigits(SubSeq(stamp, 1, 8))
    /\ stamp[9] = "_"
    /\ AllDigits(SubSeq(stamp, 10, 15))
    /\ LET y  == Atoi(SubSeq(stamp, 1, 4))
           m  == Atoi(SubSeq(stamp, 5, 6))
           d  == Atoi(SubSeq(stamp, 7, 8))
           hh == Atoi(SubSeq(stamp, 10, 11))
           mi == Atoi(SubSeq(stamp, 12, 13))
           ss == Atoi(SubSeq(stamp, 14, 15))
       IN  /\ m \in 1..12
           /\ d \in 1..DaysIn(m, y)
           /\ hh \in 0..23
           /\ mi \in 0..59
           /\ ss \in 0..59
           /\ DateUTC(y, m, d, hh, mi, ss) = w

\* C20: the generated filename is <dbname>_<dbtype>_<YYYYMMDD>_<HHMMSS>
\* followed by the extension of the database type, and is determined by
\* the name, the type and the instant truncated to the second (read on the
\* wall clock of the process's zone).
C20_FilenameFormat ==
    fpc = "generated" =>
        LET prefix == fdb.name \o <<"_">> \o fdb.type \o <<"_">>
            ext    == ExpectedExt(fdb.type)
        IN  /\ Len(fname) = Len(prefix) + 15 + Len(ext)
            /\ HasPrefix(fname, prefix)
            /\ HasSuffix(fname, ext)
            /\ ReadsAs(SubSeq(fname, Len(prefix) + 1, Len(prefix) + 15),
                       fnow.sec + fzone)

\* A filename was generated for a database of a type outside the table, at
\* an instant that is not a whole second.
C20_Witness ==
    /\ fpc = "generated"
    /\ fdb.type = TypeSqlite
    /\ fnow.nsec # 0

(***************************************************************************)
(* What the uploads of a run receive, the join of the fan-out, and the     *)
(* order of the steps; checked under SpecBackup.                           *)
(***************************************************************************)
\* The remote names passed to the Upload calls of the run.
UploadNames ==
    Range(localCalls) \cup UNION {Range(upCalls[t]) : t \in Targets}

\* C21: with compression enabled every Upload of the run receives the path
\* of the compressed file and the raw filename with ".gz" appended, never
\* the raw dump; with compression disabled the compressor is never invoked
\* and every Upload receives the raw dump under the unsuffixed filename.
C21_UploadsReceiveFinalArtifact ==
    LET gz == filename \o <<".", "g", "z">>
    IN  /\ (compress /\ UploadNames # {}) =>
              /\ calls["compress"] = 1
              /\ UploadNames = {gz}
              /\ pathCalls = {TempPath(gz)}
              /\ TempPath(filename) \notin pathCalls
        /\ ~compress =>
              /\ calls["compress"] = 0
              /\ UploadNames # {} =>
                   /\ UploadNames = {filename}
                   /\ pathCalls = {TempPath(filename)}

\* A run with compression enabled has returned after the local upload and
\* an Upload to every target.
C21_Witness ==
    /\ bpc = "returned"
    /\ compress
    /\ calls["compress"] = 1
    /\ Len(localCalls) = 1
    /\ \A t \in Targets : Len(upCalls[t]) = 1

\* C22: the fan-out starts one upload unit per target and the run does not
\* return while one of them has not completed.
C22_FanoutJoinsEveryUnit ==
    /\ bpc = "fanout" => \A t \in Targets : upState[t] # "idle"
    /\ bpc = "returned" =>
         \/ \A t \in Targets : upState[t] = "idle" /\ upCalls[t] = <<>>
         \/ \A t \in Targets : upState[t] = "done" /\ Len(upCalls[t]) = 1

\* The fan-out is waiting: the unit of one target has completed while the
\* Upload of another is still in progress.
C22_Witness ==
    /\ bpc = "fanout"
    /\ \E t, u \in Targets : upState[t] = "done" /\ upState[u] = "running"

\* C23: within one run ping, dump, compression, the local upload and the
\* Upload to each target are each invoked at most once.
C23_NothingRetried ==
    /\ \A op \in DOMAIN calls : calls[op] <= 1
    /\ Len(localCalls) <= 1
    /\ \A t \in Targets : Len(upCalls[t]) <= 1

\* A run has returned after the Upload to a target failed, and that Upload
\* was invoked once.
C23_Witness ==
    /\ bpc = "returned"
    /\ \E t \in Targets : upOutcome[t] = "err" /\ Len(upCalls[t]) = 1

\* C25: when the cancellation signal is raised during a run, the dump call,
\* the compression call and every Upload in flight at that moment abort:
\* the call in flight fails.
C25_CancellationObserved ==
    /\ (cancelStage = "dump" /\ calls["dump"] = 1) => bresult = "backup"
    /\ (cancelStage = "compress" /\ calls["compress"] = 1) =>
         bresult = "compression"
    /\ \A t \in cancelUp : upState[t] = "done" => upOutcome[t] = "err"

\* The place of each position of Execute in the order of the steps.
StageRank(pc) ==
    CASE pc = "ping"     -> 1
      [] pc = "dump"     -> 2
      [] pc = "stat"     -> 3
      [] pc = "compress" -> 4
      [] pc = "local"    -> 5
      [] pc = "fanout"   -> 6
      [] pc = "returned" -> 7
      [] OTHER           -> 0

\* What has been invoked when the run is at each step: every earlier step
\* once, no later one; compression only when it is enabled; a result
\* exactly when the run has returned.
StageTable ==
    /\ bpc = "ping" => \A op \in DOMAIN calls : calls[op] = 0
    /\ bpc = "dump" => calls["ping"] = 1 /\ calls["dump"] = 0
    /\ bpc = "stat" => calls["dump"] = 1 /\ calls["compress"] = 0
    /\ bpc = "compress" =>
         compress /\ calls["dump"] = 1 /\ calls["compress"] = 0
    /\ bpc \in {"compress", "stat", "dump", "ping"} => UploadNames = {}
    /\ bpc = "local" =>
         /\ calls["dump"] = 1
         /\ calls["compress"] = (IF compress THEN 1 ELSE 0)
         /\ UploadNames = {}
    /\ bpc = "fanout" => Len(localCalls) = 1
    /\ (bpc = "returned") <=> (bresult # "none")

\* C27: a run passes through connectivity check, dump, compression (only
\* if enabled) and upload in this order, each step after the previous one
\* succeeded and none twice, and it ends with exactly one result.
C27_StagesInOrder ==
    [][/\ bpc' = bpc \/ StageRank(bpc') > StageRank(bpc)
       /\ StageTable'
       /\ bpc = "returned" => bresult' = bresult]_vars

\* A run without compression has gone from the dump to the uploads and has
\* returned nil.
C27_Witness ==
    /\ bpc = "returned"
    /\ bresult = "nil"
    /\ ~compress
    /\ calls = [op \in {"ping", "dump", "compress"} |->
                   IF op = "compress" THEN 0 ELSE 1]

(***************************************************************************)
(* Independence of the jobs of the scheduler, checked under SpecScheduler. *)
(***************************************************************************)
\* C26: an invocation that is still running does not delay or prevent the
\* firing of another registered job: at every tick of the running
\* scheduler, each registered job that is due while another job has an
\* invocation in progress is started at that tick.
C26_RunningJobBlocksNoOther ==
    [][(running /\ clock' = clock + 1) =>
          \A k \in Registered :
              (/\ ShouldFire(ExprOf(k), clock', startAt)
               /\ \E j \in Jobs \ {k} : inflight[j] > 0)
              => /\ <<k, clock'>> \in fired'
                 /\ inflight'[k] = inflight[k] + 1]_vars

\* A job was started at this tick while the invocation of another job,
\* started at an earlier tick, is still in progress.
C26_Witness ==
    \E k, j \in Registered :
        /\ k # j
        /\ <<k, clock>> \in fired
        /\ <<j, clock>> \notin fired
        /\ inflight[k] > 0
        /\ inflight[j] > 0

(***************************************************************************)
(* Temp files of runs in progress together, checked under SpecOverlap.     *)
(***************************************************************************)
\* C24: no two pipeline runs that execute at the same time use the same
\* temp file path.
C24_TempPathsDistinct ==
    \A r, q \in RunIds :
        (r # q /\ runs[r].pc \in {"dump", "upload"}
               /\ runs[q].pc \in {"dump", "upload"})
            => runs[r].path # runs[q].path

(***************************************************************************)
(* LocalStorage.GetOldFiles, checked under SpecLocal.                      *)
(***************************************************************************)
\* The names of the entries of the kinds K that the directory held before
\* the call with a modification time before the cutoff.
OldNames(K) ==
    {EntryNames[e] : e \in {x \in EntryIds : /\ lbefore[x].kind \in K
                                             /\ lbefore[x].mtime < lcutoff}}

\* C30 as stated: GetOldFiles returns exactly the names of the regular
\* files whose modification time is strictly before the cutoff, and it
\* changes no file.
C30_ReturnsOldRegularFiles ==
    (lpc = "returned" /\ ~lresult.err) =>
        /\ Range(lresult.names) = OldNames({"file"})
        /\ ldir = lbefore

\* C30 as amended: a successful GetOldFiles returns exactly the names of
\* the entries that are not directories (files, and symbolic links alike)
\* whose modification time is strictly before the cutoff, each once, and it
\* changes no entry.
C30_ReturnsOldNonDirectories ==
    (lpc = "returned" /\ ~lresult.err) =>
        /\ Range(lresult.names) = OldNames({"file", "symlink"})
        /\ Len(lresult.names) = Cardinality(OldNames({"file", "symlink"}))
        /\ ldir = lbefore

\* A call has returned the name of an old file from a directory that also
\* holds a file modified exactly at the cutoff.
C30_Witness ==
    /\ lpc = "returned"
    /\ ~lresult.err
    /\ Len(lresult.names) = 1
    /\ \E e, x \in EntryIds :
         /\ lbefore[e].kind = "file"
         /\ lbefore[e].mtime < lcutoff
         /\ lbefore[x].kind = "file"
         /\ lbefore[x].mtime = lcutoff

(***************************************************************************)
(* The cutoff and the counters of a cleanup run, checked under             *)
(* SpecCleanup.                                                            *)
(***************************************************************************)
\* The cutoff of a run that started at one of the instants of the model.
RunCutoffs == {now - RetentionDays * 86400 : now \in CleanupInstants}

\* Every target that has its deletion list was evaluated against the
\* cutoff of the run: a queried target by the times of its storage, a
\* listed target by the timestamps in the names.
EvaluatedAgainstCutoff ==
    /\ cpc # "idle" => cutoff \in RunCutoffs
    /\ \A t \in Targets :
         /\ tier[t] = "tier1" =>
              Range(listed[t]) =
                  {f \in store0[t] : MasterFiles[f].mtime < cutoff}
         /\ tier[t] = "tier2" =>
              Range(files[t]) =
                  {f \in store0[t] : Parsed[f].ok /\ Parsed[f].t < cutoff}

\* C28: the cutoff of a cleanup run is computed once, as the start instant
\* minus the retention days, every target of the run is evaluated against
\* that value, and no step changes it afterwards.
C28_OneCutoffPerRun ==
    [][/\ cpc # "idle" => cutoff' = cutoff
       /\ EvaluatedAgainstCutoff']_vars

\* Two targets of one run have found files to delete, one by its query and
\* one by the names of its listing.
C28_Witness ==
    \E t, u \in Targets :
        /\ tier[t] = "tier1"
        /\ tier[u] = "tier2"
        /\ files[t] # <<>>
        /\ files[u] # <<>>

\* C29: a step changes the deleted counter of a target only as a Delete of
\* that target's own unit, by one, and changes the counter of no other
\* target; each counter is the number of files its unit has deleted.
C29_CountersWrittenByOwnUnit ==
    [][/\ \A t \in Targets :
            deleted'[t] # deleted[t] =>
                /\ unit[t] = "deleting"
                /\ Len(delCalls'[t]) = Len(delCalls[t]) + 1
                /\ deleted'[t] = deleted[t] + 1
                /\ \A u \in Targets \ {t} : deleted'[u] = deleted[u]
       /\ \A t \in Targets :
            deleted'[t] = Cardinality(store0'[t] \ store'[t])]_vars

\* Two units have each deleted a file while both were still deleting.
C29_Witness ==
    \E t, u \in Targets :
        /\ t # u
        /\ cpc = "waiting"
        /\ deleted[t] > 0
        /\ deleted[u] > 0
        /\ unit[t] = "deleting"
        /\ unit[u] = "deleting"

(***************************************************************************)
(* A failed query of a target, checked under SpecCleanup.                  *)
(***************************************************************************)
\* The GetOldFiles call of the goroutine of target t returned an error.
QueryFailed(t) ==
    /\ "GetOldFiles" \in discCalls[t]
    /\ unit[t] # "query"
    /\ tier[t] # "tier1"

\* After a failed query the target is listed, it is reported as failed
\* only when the listing failed too, and only files the listing dates
\* before the cutoff are passed to Delete or removed.
FallsBackToList(t) ==
    /\ unit[t] = "list" \/ "List" \in discCalls[t]
    /\ t \in failLog => "List" \in discCalls[t] /\ tier[t] = "failed"
    /\ "List" \in discCalls[t] => tier[t] \in {"tier2", "failed"}
    /\ Range(delCalls[t]) \subseteq ExpiredByName(listed[t], cutoff)
    /\ store0[t] \ store[t] \subseteq ExpiredByName(listed[t], cutoff)

\* C31 as stated: whenever GetOldFiles of a target returns an error, the
\* cleaner falls back to List and the timestamps of the names for that
\* target in the same run; the target is reported as failed only if List
\* fails too, and no file returned by neither path is deleted.
C31_QueryErrorFallsBack ==
    \A t \in Targets : QueryFailed(t) => FallsBackToList(t)

\* C31, amended: usecase.Cleanup falls back to List after a failed
\* GetOldFiles, as stated; CleanupUseCase lists only a storage without a
\* GetOldFiles operation, and after a failed GetOldFiles it reports the
\* target as failed without listing it and deletes none of its files.
C31_QueryErrorFallsBackInCleanup ==
    \A t \in Targets :
        QueryFailed(t) =>
            IF impl = "CleanupUseCase"
            THEN /\ unit[t] = "done"
                 /\ tier[t] = "failed"
                 /\ t \in failLog
                 /\ "List" \notin discCalls[t]
                 /\ delCalls[t] = <<>>
                 /\ store[t] = store0[t]
            ELSE FallsBackToList(t)

\* A target of usecase.Cleanup whose query failed was listed, and its
\* cleanup deleted the expired files of the listing and kept another.
C31_Witness ==
    \E t \in Targets :
        /\ impl # "CleanupUseCase"
        /\ discCalls[t] = {"GetOldFiles", "List"}
        /\ tier[t] = "tier2"
        /\ unit[t] = "done"
        /\ t \notin failLog
        /\ delCalls[t] # <<>>
        /\ store0[t] \ store[t] = ExpiredByName(listed[t], cutoff)
        /\ store[t] # {}

(***************************************************************************)
(* The temp file of a run during its uploads, checked under SpecOverlap.   *)
(***************************************************************************)
\* C32: while the uploads of a pipeline run are in progress, from the
\* call of uploadBackup to the join of the fan-out, the artifact of the
\* run is in the temp directory: it is removed only after the join.
C32_ArtifactKeptDuringUploads ==
    \A r \in RunIds : runs[r].pc = "upload" => runs[r].path \in otemp

NamesOf(S) == {f.name : f \in S}

\* C34: a cleanup with retention days of at least 1 that works on a target
\* by List and the timestamps of the names while a pipeline run uploads
\* its new artifact to that target never deletes the new artifact.
C34_NewArtifactSurvivesCleanup ==
    (tdays >= 1 /\ tduring /\ ttier[1] = "tier2") =>
        tname \notin NamesOf(tdel[1] \ tfail[1])

\* The operations a pipeline run and cleanupTarget may invoke on a target.
PipelineOps == {<<"pipeline", "Upload">>}

CleanupOps ==
    {<<"cleanup", "GetOldFiles">>, <<"cleanup", "List">>,
     <<"cleanup", "Delete">>}

\* C37: a step of the pipeline run invokes only Upload and removes no file
\* of the target; a step of cleanupTarget invokes only GetOldFiles, List
\* and Delete, adds no file, and removes only files of its deletion set,
\* leaving every other file as it was.
C37_PipelineAddsCleanupRemoves ==
    [][/\ trun' # trun =>
            /\ tops' \ tops \subseteq PipelineOps
            /\ NamesOf(tstore) \subseteq NamesOf(tstore')
            /\ \A g \in tstore : g.name # tname' => g \in tstore'
       /\ (tpc' # tpc \/ tdel' # tdel) =>
            /\ tops' \ tops \subseteq CleanupOps
            /\ tstore' \subseteq tstore
            /\ NamesOf(tstore \ tstore') \subseteq NamesOf(tfiles'[tpass'])
       /\ tops' \subseteq PipelineOps \cup CleanupOps]_vars

\* Both have finished: the run has stored its artifact, and the cleanup
\* has deleted one of the files the target held and kept another.
C37_Witness ==
    /\ trun = "done"
    /\ tpc = "done"
    /\ <<"pipeline", "Upload">> \in tops
    /\ <<"cleanup", "Delete">> \in tops
    /\ tname \in NamesOf(tstore)
    /\ TargetFiles \ tstore # {}
    /\ TargetFiles \cap tstore # {}

\* The first call of cleanupTarget found a deletion set and every Delete
\* of it succeeded, and no Upload has stored a file since the call began.
FirstCleanupComplete ==
    /\ tpass = 2
    /\ ttier[1] \in {"tier1", "tier2"}
    /\ tfail[1] = {}
    /\ ~tsince

\* C38 as stated: after a cleanup of a target that deleted every file of
\* its deletion set, with no file uploaded since, a second cleanup of the
\* target with the same cutoff has an empty deletion set and calls Delete
\* on nothing.
C38_SecondCleanupDeletesNothing ==
    FirstCleanupComplete => tfiles[2] = {} /\ tdel[2] = {}

\* C38, amended: the same, for a second cleanup that finds its deletion
\* set the way the first did, both by GetOldFiles or both by List and the
\* timestamps of the names.
C38_SecondCleanupSameTierDeletesNothing ==
    (FirstCleanupComplete /\ ttier[2] \in {"none", "failed", ttier[1]})
        => tfiles[2] = {} /\ tdel[2] = {}

\* Two calls with the same cutoff, the first deleted files and the second
\* found none by the same discovery.
C38_Witness ==
    /\ FirstCleanupComplete
    /\ tpc = "done"
    /\ ttier[2] = ttier[1]
    /\ tdel[1] # {}
    /\ tfiles[2] = {}
    /\ tstore # {}

(***************************************************************************)
(* App.Run and Scheduler.Stop, checked under SpecScheduler and             *)
(* SpecSchedulerFair.                                                      *)
(***************************************************************************)
\* C35: when an AddJob of App.Run has failed, Run registers nothing more,
\* the scheduler is never started, and no job registered before the
\* failure is ever invoked.
C35_FailedRegistrationStartsNothing ==
    (\E i \in 1..Len(addLog) : ~addLog[i].ok) =>
        /\ ~addLog[Len(addLog)].ok
        /\ \A i \in 1..(Len(addLog) - 1) : addLog[i].ok
        /\ sphase # "started"
        /\ startAt = NoInstant
        /\ ~running
        /\ fired = {}
        /\ jobWaiter = 0

\* The second registration failed after a job that is due every second
\* was registered; seconds have passed and the application has shut down.
C35_Witness ==
    /\ Len(addLog) = 2
    /\ addLog[1].ok
    /\ CronExprs[addLog[1].expr] = ExprEverySecond
    /\ ~addLog[2].ok
    /\ Len(entries) = 1
    /\ clock > ClockStart + 1
    /\ sphase = "stopped"
    /\ fired = {}

\* C36: when the invocations in flight at the call of Stop return, Stop
\* returns; and Stop returns only in a state where no invocation is in
\* flight, however long that takes.
C36_StopReturnsAfterLastInvocation ==
    /\ (sphase = "stopping") ~> (sphase = "stopped")
    /\ [][(sphase = "stopping" /\ sphase' = "stopped") =>
              /\ jobWaiter = 0
              /\ \A k \in Jobs : inflight'[k] = 0]_vars

\* Stop has returned seconds after it was called, having waited for two
\* invocations.
C36_Witness ==
    /\ sphase = "stopped"
    /\ stopAt # NoInstant
    /\ clock >= stopAt + 2
    /\ \E k \in Jobs : jobFailed[k]
    /\ Cardinality(fired) >= 2

====
